---------------------------- MODULE Spec2Model ----------------------------
(***************************************************************************)
(* Photo map: area clustering, marker creation and marker sizing.          *)
(*                                                                         *)
(* Two implementations live in the repository and both are modelled:       *)
(*   - the legacy PhotoMapApp      (src/js/config/constants.js)            *)
(*   - the refactored MarkerManager (src/unnamed/part_001) on top of       *)
(*     DataManager                  (src/js/modules/DataManager.js)        *)
(*                                                                         *)
(* Geometry.  All points lie on one meridian (one common, present          *)
(* longitude), on a grid whose step is one kilometre.  On a meridian the   *)
(* haversine formula of calculateDistance reduces to R * |dLat|, so the    *)
(* distance of two grid points is the absolute difference of their grid    *)
(* latitudes, in km.  A present latitude is a positive grid index and a    *)
(* present longitude is Meridian; 0 stands for a coordinate that is        *)
(* missing (undefined), which is falsy and turns every distance computed   *)
(* from it into NaN.  A radius of 0 stands for a radius that is undefined  *)
(* or zero (both are falsy in the code).                                   *)
(***************************************************************************)
EXTENDS Integers, Sequences, FiniteSets, TLC

VARIABLES
    app,               \* which application runs in the page: "legacy" | "refactored"
    areas,             \* this.areas / dataManager.areas
    photos,            \* this.photos / dataManager.photos
    zoom,              \* map.getZoom()
    areaLayer,         \* the markers on this.areaLayer, in insertion order
    lastClusterState,  \* "null" | "true" | "false"
    lastPass,          \* << >>, or <<the last render pass: its inputs and markers>>
    firstPass,         \* << >>, or <<the first render pass: its inputs and markers>>
    shownArea,         \* << >>, or <<the area whose panel is shown, with its photos>>
    rep,               \* << >>, or <<the last getRepresentativePhoto call>>
    size,              \* << >>, or <<the marker sizes before and after a zoom>>
    cache,             \* DataManager.cache: per key << >> or <<the entry>>
    now,               \* Date.now(), in minutes
    errorCounts,       \* ErrorHandler.errorCounts.get('DataManager.loadData')
    load,              \* << >>, or <<the last loadData call and how it ended>>
    fetched,           \* per key << >> or <<the last successful network fetch>>
    iconFaults,        \* the icon constructions that fail in the next passes
    selectedCluster,   \* << >> (null), or <<the id of this.selectedCluster>>
    lastEvent,         \* the kind of event whose handler ran last
    timerPending       \* the timer of runPostInitializationTests has not fired

loadVars == <<cache, now, errorCounts, load, fetched>>

selectVars == <<selectedCluster, lastEvent, timerPending>>

VARIABLES
    events,            \* EventEmitter.events: per event name its listener array
    dispatch,          \* the emit calls in progress, innermost last
    emits,             \* every emit call so far: who was registered, who ran
    nextId,            \* the number of listener ids generated so far
    call,              \* << >>, or <<the last call under study and its result>>
    errorCountsOf,     \* ErrorHandler.errorCounts, for every context
    img,               \* an image element and the closure of its handlers
    loops,             \* the addAreaMarkers loops suspended at an await
    markerLookup,      \* MarkerManager.markerLookup: cluster id -> marker
    created,           \* the number of markers created so far
    refreshes,         \* the number of refreshAreaMarkers calls so far
    panel              \* the photo panel of the legacy application

busVars == <<events, dispatch, emits, nextId>>

(* The variables of the map, its data and its markers *)
baseVars == <<app, areas, photos, zoom, areaLayer, lastClusterState,
              lastPass, firstPass, shownArea, rep, size,
              loadVars, iconFaults, selectVars>>

(* The variables of the parts modelled further down *)
markerVars == <<loops, markerLookup, created, refreshes>>

tailVars == <<img, markerVars, panel>>

laterVars == <<busVars, call, errorCountsOf, tailVars>>

vars == <<app, areas, photos, zoom, areaLayer, lastClusterState,
          lastPass, firstPass, shownArea, rep, size,
          loadVars, iconFaults, selectVars, laterVars>>

-----------------------------------------------------------------------------
(* Bounds of the model *)

MaxAreas == 3
MaxPhotos == 2

(* Program constants *)

CLUSTER_DISTANCE_KM == 2
CLUSTER_ZOOM_THRESHOLD == 12
MIN_ZOOM == 10
MAX_ZOOM == 18
MARKER_MIN_SIZE == 20
MARKER_MAX_SIZE == 50
DEFAULT_RADIUS == 1

LEGACY_CONFIG_ZOOM == 13
MAP_ZOOM == 14

Null == "null"

(* The DataManager and the ErrorHandler after construction *)
Keys == {"photos", "areas"}

InitLoader ==
    /\ cache = [k \in Keys |-> <<>>]
    /\ now = 0
    /\ errorCounts = 0
    /\ load = <<>>
    /\ fetched = [k \in Keys |-> <<>>]

EventNames == {"a", "b"}

(* The EventEmitter after construction *)
InitBus ==
    /\ events = [e \in EventNames |-> <<>>]
    /\ dispatch = <<>>
    /\ emits = <<>>
    /\ nextId = 0

(* The parts modelled further down, after construction *)
(* The photo panel of the legacy PhotoMapApp after construction: page 1,    *)
(* twelve photos a page, no photos; the lists are kept by their lengths     *)
photosPerPage == 12

PanelAfterConstruction ==
    [currentAreaPhotos |-> 0, filteredPhotos |-> 0, currentPage |-> 1,
     photosPerPage |-> photosPerPage, loadMoreShown |-> FALSE,
     pagePhotos |-> 0]

(* An image element no fallback was set up for *)
NoImage == <<>>

(* The contexts that report errors to ErrorHandler.handle *)
HandleContexts == {"DataManager.loadData", "MarkerManager.createAreaMarker"}

InitLater ==
    /\ InitBus
    /\ call = <<>>
    /\ errorCountsOf = [c \in HandleContexts |-> 0]
    /\ img = NoImage
    /\ loops = <<>>
    /\ markerLookup = <<>>
    /\ created = 0
    /\ refreshes = 0
    /\ panel = PanelAfterConstruction

(* The MarkerManager after construction: nothing selected *)
InitSelection ==
    /\ selectedCluster = <<>>
    /\ lastEvent = "none"
    /\ timerPending = FALSE

(* Grid latitudes (km): the distances 0, 1, 2 and 3 km all occur, so the   *)
(* cluster distance and a radius of 1 km are met exactly, undercut and     *)
(* exceeded                                                                *)
Lats == {1, 3, 4}
Radii == {0, 1}
(* The zoom levels a zoomend event may bring *)
ZoomLevels == {12, 13, 14}

-----------------------------------------------------------------------------
(* Sequence helpers *)

RECURSIVE SumSeq(_)
SumSeq(s) == IF s = <<>> THEN 0 ELSE Head(s) + SumSeq(Tail(s))

RECURSIVE Flatten(_)
Flatten(ss) == IF ss = <<>> THEN <<>> ELSE Head(ss) \o Flatten(Tail(ss))

Range(s) == {s[i] : i \in DOMAIN s}

Abs(x) == IF x < 0 THEN -x ELSE x

-----------------------------------------------------------------------------
(* The common longitude, a missing coordinate and the NaN distance *)
Meridian == 5
Missing == 0
NaN == -1

(* The distance in km of two latitudes of the meridian *)
MeridianKm(lat1, lat2) == Abs(lat2 - lat1)

(* Mutant: a missing coordinate counts as the coordinate 0 *)
calculateDistanceFromZero(lat1, lng1, lat2, lng2) == MeridianKm(lat1, lat2)

(* calculateDistance: haversine, restricted to one meridian (km); NaN when *)
(* a coordinate is undefined                                               *)
calculateDistance(lat1, lng1, lat2, lng2) ==
    IF Missing \in {lat1, lng1, lat2, lng2} THEN NaN
    ELSE MeridianKm(lat1, lat2)

(* distance <= limit, false for NaN *)
AtMost(distance, limit) == distance # NaN /\ distance <= limit

(* PhotoMapApp.getPhotosInArea *)
LegacyGetPhotosInArea(area, ps) ==
    IF area.center_lat = Missing \/ area.center_lng = Missing \/ area.radius = 0
    THEN <<>>
    ELSE SelectSeq(ps, LAMBDA photo :
            /\ photo.latitude # Missing /\ photo.longitude # Missing
            /\ AtMost(calculateDistance(area.center_lat, area.center_lng,
                                        photo.latitude, photo.longitude),
                      area.radius))

(* DataManager.getPhotosInArea *)
DMGetPhotosInArea(area, ps) ==
    IF area.center_lat = Missing \/ area.center_lng = Missing THEN <<>>
    ELSE SelectSeq(ps, LAMBDA photo :
            AtMost(calculateDistance(photo.latitude, photo.longitude,
                                     area.center_lat, area.center_lng),
                   IF area.radius = 0 THEN DEFAULT_RADIUS ELSE area.radius))


-----------------------------------------------------------------------------
(* Cluster objects.  `{...area, isCluster: false}` keeps the area's own     *)
(* fields; a multi-member cluster has the mean center, its member areas in  *)
(* `areas` and the concatenated photo lists in `photos`.  The center is the *)
(* exact quotient num/den.  hasPhotos tells whether the object carries a    *)
(* `photos` property.  An id string is the sequence of its tokens, the      *)
(* pieces between underscores ("area_001" is <<"area", "001">>), so that    *)
(* joining ids with '_' is the concatenation of their token sequences.  A   *)
(* cluster id carries the "cluster" prefix as its kind.                     *)

AreaId(area) == [kind |-> "area", ids |-> area.id]

(* Mutant: the center of the seed is taken for the center of the cluster *)
CenterOfSeed(areaSeq) ==
    [num |-> areaSeq[1].center_lat * Len(areaSeq),
     lngNum |-> areaSeq[1].center_lng * Len(areaSeq),
     den |-> Len(areaSeq)]

Center(areaSeq) ==
    [num |-> SumSeq([k \in DOMAIN areaSeq |-> areaSeq[k].center_lat]),
     lngNum |-> SumSeq([k \in DOMAIN areaSeq |-> areaSeq[k].center_lng]),
     den |-> Len(areaSeq)]

SingleCluster(area, hasPhotos, ps) ==
    [id |-> AreaId(area), center |-> Center(<<area>>), radius |-> area.radius,
     is_active |-> area.is_active, isCluster |-> FALSE, areas |-> <<>>,
     hasPhotos |-> hasPhotos, photos |-> ps]

MultiCluster(idSeq, areaSeq, ps) ==
    [id |-> [kind |-> "cluster", ids |-> idSeq], center |-> Center(areaSeq),
     radius |-> 0, is_active |-> TRUE, isCluster |-> TRUE, areas |-> areaSeq,
     hasPhotos |-> TRUE, photos |-> ps]

(* The area a singleton cluster object stands for (its spread fields) *)
AsArea(cluster) ==
    [id |-> cluster.id.ids, center_lat |-> cluster.center.num,
     center_lng |-> cluster.center.lngNum,
     radius |-> cluster.radius, is_active |-> cluster.is_active]

RECURSIVE SortedSeq(_)
SortedSeq(S) ==
    IF S = {} THEN <<>>
    ELSE LET m == CHOOSE x \in S : \A y \in S : x <= y
         IN <<m>> \o SortedSeq(S \ {m})

-----------------------------------------------------------------------------
(* shouldClusterMarkers *)

(* Mutant: the threshold zoom itself is not clustered *)
LegacyShouldClusterBelow(z) == z < 12

LegacyShouldClusterMarkers(z) == z <= 12

(* Mutant: the clustering state left by the last zoom change is reused *)
MMShouldClusterStale(z) ==
    IF lastClusterState = Null THEN z <= CLUSTER_ZOOM_THRESHOLD
    ELSE lastClusterState = "true"

MMShouldClusterMarkers(z) == z <= CLUSTER_ZOOM_THRESHOLD

(* The inclusive distance tests of the two clusterers *)

(* Mutant: the boundary distance is excluded *)
LegacyNearbyStrict(distance) == distance # NaN /\ distance < 2

LegacyNearby(distance) == AtMost(distance, 2)

MMNearby(distance) == AtMost(distance, CLUSTER_DISTANCE_KM)

(* The id strings of a multi-member cluster *)

(* `cluster_${area.id}` *)
LegacyClusterId(seed, clusterAreas) == seed.id

(* `cluster_${nearbyAreas.map(a => a.id).join('_')}` *)
MMClusterId(nearbyAreas) ==
    Flatten([k \in DOMAIN nearbyAreas |-> nearbyAreas[k].id])

-----------------------------------------------------------------------------
(* PhotoMapApp.createPhotoClusters: the forEach over this.areas, from index *)
(* i on, with the processedAreas set (of ids) and the clusters pushed so far *)

RECURSIVE LegacyClustersFrom(_, _, _, _, _)
LegacyClustersFrom(as, ps, i, processedAreas, clusters) ==
    IF i > Len(as) THEN clusters
    ELSE
      LET area == as[i] IN
      IF area.id \in processedAreas \/ ~area.is_active
      THEN LegacyClustersFrom(as, ps, i + 1, processedAreas, clusters)
      ELSE
        LET nearbyAreas == SelectSeq(as, LAMBDA otherArea :
                /\ otherArea.id # area.id
                /\ otherArea.id \notin processedAreas
                /\ otherArea.is_active
                /\ LegacyNearby(calculateDistance(
                       area.center_lat, area.center_lng,
                       otherArea.center_lat, otherArea.center_lng)))
        IN
        IF Len(nearbyAreas) > 0
        THEN
          LET clusterAreas == <<area>> \o nearbyAreas
              allPhotos == Flatten([k \in DOMAIN clusterAreas |->
                               LegacyGetPhotosInArea(clusterAreas[k], ps)])
              processed2 == processedAreas \cup
                               {clusterAreas[k].id : k \in DOMAIN clusterAreas}
          IN LegacyClustersFrom(as, ps, i + 1, processed2,
                 IF Len(allPhotos) > 0
                 THEN Append(clusters,
                        MultiCluster(LegacyClusterId(area, clusterAreas),
                                     clusterAreas, allPhotos))
                 ELSE clusters)
        ELSE
          LET areaPhotos == LegacyGetPhotosInArea(area, ps) IN
          IF Len(areaPhotos) > 0
          THEN LegacyClustersFrom(as, ps, i + 1, processedAreas \cup {area.id},
                   Append(clusters, SingleCluster(area, TRUE, areaPhotos)))
          ELSE LegacyClustersFrom(as, ps, i + 1, processedAreas, clusters)

createPhotoClusters(as, ps) == LegacyClustersFrom(as, ps, 1, {}, <<>>)

(* Mutant: only the seed is marked as processed *)
MMMarkProcessedSeedOnly(processed, nearbyIndices) ==
    processed \cup {nearbyIndices[1]}

(* nearbyIndices.forEach(idx => processed.add(idx)) *)
MMMarkProcessed(processed, nearbyIndices) ==
    processed \cup Range(nearbyIndices)

(* MarkerManager.createClusters: the forEach over areas, from index i on,   *)
(* with the processed set (of indices) and the clusters pushed so far       *)

RECURSIVE MMClustersFrom(_, _, _, _, _)
MMClustersFrom(as, ps, i, processed, clusters) ==
    IF i > Len(as) THEN clusters
    ELSE IF i \in processed
    THEN MMClustersFrom(as, ps, i + 1, processed, clusters)
    ELSE
      LET area == as[i]
          others == {j \in DOMAIN as :
                        /\ j # i
                        /\ j \notin processed
                        /\ MMNearby(calculateDistance(
                               area.center_lat, area.center_lng,
                               as[j].center_lat, as[j].center_lng))}
          nearbyIndices == <<i>> \o SortedSeq(others)
          nearbyAreas == [k \in DOMAIN nearbyIndices |-> as[nearbyIndices[k]]]
          processed2 == MMMarkProcessed(processed, nearbyIndices)
      IN
      IF Len(nearbyAreas) > 1
      THEN MMClustersFrom(as, ps, i + 1, processed2,
               Append(clusters,
                 MultiCluster(MMClusterId(nearbyAreas), nearbyAreas,
                     Flatten([k \in DOMAIN nearbyAreas |->
                                 DMGetPhotosInArea(nearbyAreas[k], ps)]))))
      ELSE MMClustersFrom(as, ps, i + 1, processed2,
               Append(clusters, SingleCluster(area, FALSE, <<>>)))

createClusters(as, ps, z) ==
    IF ~MMShouldClusterMarkers(z)
    THEN [k \in DOMAIN as |-> SingleCluster(as[k], FALSE, <<>>)]
    ELSE MMClustersFrom(as, ps, 1, {}, <<>>)


-----------------------------------------------------------------------------
(* getResponsiveMarkerSize *)

LegacyGetResponsiveMarkerSize(z, isCluster) ==
    IF z <= 10 THEN (IF isCluster THEN 16 ELSE 12)
    ELSE IF z <= 12 THEN (IF isCluster THEN 24 ELSE 18)
    ELSE IF z <= 14 THEN (IF isCluster THEN 36 ELSE 30)
    ELSE IF z <= 16 THEN (IF isCluster THEN 48 ELSE 42)
    ELSE (IF isCluster THEN 60 ELSE 54)

(* Math.round of the quotient n/d, d > 0: floor(n/d + 1/2) *)
MathRound(n, d) == (2 * n + d) \div (2 * d)

(* Mutant: the scale factor is measured from MAX_ZOOM downwards *)
MMGetResponsiveMarkerSizeFromMaxZoom(z, isCluster) ==
    LET dynDen == MAX_ZOOM - MIN_ZOOM
        dynNum == MARKER_MIN_SIZE * dynDen
                    + (MARKER_MAX_SIZE - MARKER_MIN_SIZE) * (MAX_ZOOM - z)
    IN IF isCluster THEN (2 * 3 * dynNum + 2 * dynDen) \div (2 * 2 * dynDen)
       ELSE (2 * dynNum + dynDen) \div (2 * dynDen)

(* dynamicSize = MIN_SIZE + (MAX_SIZE - MIN_SIZE) * scaleFactor is the      *)
(* quotient dynNum / dynDen; a cluster takes SIZE_SCALE_FACTOR = 3/2 of it  *)
MMGetResponsiveMarkerSize(z, isCluster) ==
    LET dynDen == MAX_ZOOM - MIN_ZOOM
        dynNum == MARKER_MIN_SIZE * dynDen
                    + (MARKER_MAX_SIZE - MARKER_MIN_SIZE) * (z - MIN_ZOOM)
    IN IF isCluster THEN MathRound(3 * dynNum, 2 * dynDen)
       ELSE MathRound(dynNum, dynDen)

-----------------------------------------------------------------------------
(* Markers.  A marker keeps the cluster object it was created for          *)
(* (marker.clusterData / marker.areaData), the photo count on its badge and *)
(* the size of its icon.                                                    *)

Marker(cluster, photoCount, iconSize) ==
    [cluster |-> cluster, photoCount |-> photoCount, iconSize |-> iconSize]

(* PhotoMapApp.addAreaMarkers, on a cleared layer *)
LegacyAddAreaMarkers(as, ps, z) ==
    LET clusters == IF LegacyShouldClusterMarkers(z)
                    THEN createPhotoClusters(as, ps)
                    ELSE [k \in DOMAIN as |-> SingleCluster(as[k], FALSE, <<>>)]
        clusterPhotos(c) == IF c.hasPhotos THEN c.photos
                            ELSE LegacyGetPhotosInArea(AsArea(c), ps)
        shown == SelectSeq(clusters, LAMBDA c :
                     /\ c.center.num # Missing /\ c.center.lngNum # Missing
                     /\ c.is_active
                     /\ Len(clusterPhotos(c)) # 0)
    IN [k \in DOMAIN shown |->
           Marker(shown[k], Len(clusterPhotos(shown[k])),
                  LegacyGetResponsiveMarkerSize(z, shown[k].isCluster))]

(* MarkerManager.addAreaMarkers with createAreaMarker, on a cleared layer *)
MMAddAreaMarkers(as, ps, z) ==
    LET clusters == createClusters(as, ps, z)
        photosInArea(c) == IF c.isCluster THEN c.photos
                           ELSE DMGetPhotosInArea(AsArea(c), ps)
        shown == SelectSeq(clusters, LAMBDA c :
                     /\ Len(photosInArea(c)) > 0
                     /\ c.center.num # Missing /\ c.center.lngNum # Missing
                     /\ c.is_active)
    IN [k \in DOMAIN shown |->
           Marker(shown[k], Len(photosInArea(shown[k])),
                  MMGetResponsiveMarkerSize(z, shown[k].isCluster))]

(* updateMarkerSizesSafely: every marker whose icon size differs gets a new icon *)
LegacyUpdateMarkerSizesSafely(layer, z) ==
    [k \in DOMAIN layer |->
        [layer[k] EXCEPT !.iconSize =
            LegacyGetResponsiveMarkerSize(z, layer[k].cluster.isCluster)]]

MMUpdateMarkerSizesSafely(layer, z) ==
    [k \in DOMAIN layer |->
        [layer[k] EXCEPT !.iconSize =
            MMGetResponsiveMarkerSize(z, layer[k].cluster.isCluster)]]

-----------------------------------------------------------------------------
(* The inputs of a session *)

AreaAt(i, lat, lng, radius, active) ==
    [id |-> i, center_lat |-> lat, center_lng |-> lng, radius |-> radius,
     is_active |-> active]

(* An area on the meridian *)
AreaOf(i, lat, radius, active) == AreaAt(i, lat, Meridian, radius, active)

(* A photo on the meridian *)
PhotoAt(i, lat) == [id |-> i, latitude |-> lat, longitude |-> Meridian]

AreaAttrs == Lats \X Radii \X BOOLEAN

(* Area lists whose k-th area has the one-token id k *)
AreaLists ==
    UNION {{[i \in 1..n |-> AreaOf(<<i>>, f[i][1], f[i][2], f[i][3])] :
              f \in [1..n -> AreaAttrs]} : n \in 0..MaxAreas}

PhotoLists ==
    UNION {{[i \in 1..n |-> PhotoAt(i, f[i])] :
              f \in [1..n -> Lats]} : n \in 0..MaxPhotos}

(* The value kept in lastClusterState for a boolean *)
ClusterState(b) == IF b THEN "true" ELSE "false"

InitRender ==
    /\ app \in {"legacy", "refactored"}
    /\ areas \in AreaLists
    /\ photos \in PhotoLists
    /\ zoom = IF app = "legacy" THEN LEGACY_CONFIG_ZOOM ELSE MAP_ZOOM
    /\ areaLayer = <<>>
    /\ lastClusterState = Null
    /\ lastPass = <<>>
    /\ firstPass = <<>>
    /\ shownArea = <<>>
    /\ rep = <<>>
    /\ size = <<>>
    /\ InitLoader
    /\ iconFaults = <<>>
    /\ InitSelection
    /\ InitLater

(* Mutant: the clusterer works on this.areas in place and leaves it reversed *)
AreasLeftReversed(as) == [k \in DOMAIN as |-> as[Len(as) + 1 - k]]

(* The area list a pass leaves behind.  The clusterers read it with forEach, *)
(* filter, map and reduce, and push copies ({...area, isCluster: false}) or  *)
(* new objects; nothing is assigned to the list or to one of its elements    *)
AreasAfterPass(as) == as

(* The photo list a pass leaves behind: getPhotosInArea filters it into a    *)
(* new array, and nothing is assigned to a photo                             *)
PhotosAfterPass(ps) == ps

(* A render pass ran at the current zoom and left `markers` on the layer;   *)
(* `after` is the zoom of the pass before it, 0 for the first pass          *)
RenderPass(markers) ==
    /\ areas' = AreasAfterPass(areas)
    /\ photos' = PhotosAfterPass(photos)
    /\ areaLayer' = markers
    /\ lastPass' = <<[zoom |-> zoom', areas |-> areas, photos |-> photos,
                       markers |-> markers,
                       after |-> IF lastPass = <<>> THEN 0 ELSE lastPass[1].zoom]>>
    /\ firstPass' = IF firstPass = <<>> THEN lastPass' ELSE firstPass

(* PhotoMapApp.refreshAreaMarkers (and the first addAreaMarkers of initMap) *)
LegacyRefreshAreaMarkers ==
    /\ app = "legacy"
    /\ zoom' = zoom
    /\ RenderPass(LegacyAddAreaMarkers(areas, photos, zoom))
    /\ UNCHANGED <<loadVars, iconFaults, laterVars, selectVars>>
    /\ UNCHANGED <<app, lastClusterState, shownArea, rep, size>>

(* MarkerManager.refreshAreaMarkers (and the first addAreaMarkers):         *)
(* clearAreaMarkers resets the selection and empties the layer, then        *)
(* addAreaMarkers fills it                                                  *)
MMRefreshStep ==
    /\ app = "refactored"
    /\ zoom' = zoom
    /\ RenderPass(MMAddAreaMarkers(areas, photos, zoom))
    /\ selectedCluster' = <<>>
    /\ UNCHANGED <<app, lastClusterState, shownArea, rep, size,
                   loadVars, iconFaults, laterVars>>

MMRefreshAreaMarkers ==
    /\ MMRefreshStep
    /\ UNCHANGED <<lastEvent, timerPending>>

(* zoomend at zoom z, PhotoMapApp.handleZoomChange *)
LegacyHandleZoomChange(z) ==
    /\ app = "legacy"
    /\ lastPass # <<>>
    /\ zoom' = z
    /\ IF ClusterState(LegacyShouldClusterMarkers(z)) # lastClusterState
       THEN /\ RenderPass(LegacyAddAreaMarkers(areas, photos, z))
            /\ lastClusterState' = ClusterState(LegacyShouldClusterMarkers(z))
       ELSE /\ areaLayer' = LegacyUpdateMarkerSizesSafely(areaLayer, z)
            /\ UNCHANGED <<areas, photos, lastClusterState, lastPass, firstPass>>
    /\ UNCHANGED <<loadVars, iconFaults, laterVars, selectVars>>
    /\ UNCHANGED <<app, shownArea, rep, size>>

(* zoomend at zoom z, MarkerManager.handleZoomChange *)
MMHandleZoomChangeStep(z) ==
    /\ app = "refactored"
    /\ lastPass # <<>>
    /\ zoom' = z
    /\ IF ClusterState(MMShouldClusterMarkers(z)) # lastClusterState
       THEN /\ RenderPass(MMAddAreaMarkers(areas, photos, z))
            /\ lastClusterState' = ClusterState(MMShouldClusterMarkers(z))
            /\ selectedCluster' = <<>>
       ELSE /\ areaLayer' = MMUpdateMarkerSizesSafely(areaLayer, z)
            /\ UNCHANGED <<areas, photos, lastClusterState, lastPass,
                           firstPass, selectedCluster>>
    /\ UNCHANGED <<app, shownArea, rep, size, loadVars, iconFaults, laterVars>>

MMHandleZoomChange(z) ==
    /\ MMHandleZoomChangeStep(z)
    /\ UNCHANGED <<lastEvent, timerPending>>

NextRender ==
    \/ LegacyRefreshAreaMarkers
    \/ MMRefreshAreaMarkers
    \/ \E z \in ZoomLevels : LegacyHandleZoomChange(z)
    \/ \E z \in ZoomLevels : MMHandleZoomChange(z)

SpecRender == InitRender /\ [][NextRender]_vars

-----------------------------------------------------------------------------
(* The area panel: showAreaInfo on the i-th area of the list *)

(* PhotoMapApp.showAreaInfo: currentAreaPhotos = getPhotosInArea(area) *)
LegacyShowAreaInfo(i) ==
    /\ app = "legacy"
    /\ shownArea' = <<[area |-> areas[i],
                       photos |-> LegacyGetPhotosInArea(areas[i], photos)]>>
    /\ UNCHANGED <<loadVars, iconFaults, laterVars, selectVars>>
    /\ UNCHANGED <<app, areas, photos, zoom, areaLayer, lastClusterState,
                   lastPass, firstPass, rep, size>>

(* UIManager.showAreaInfo: photosInArea = dataManager.getPhotosInArea(area) *)
UIShowAreaInfo(i) ==
    /\ app = "refactored"
    /\ shownArea' = <<[area |-> areas[i],
                       photos |-> DMGetPhotosInArea(areas[i], photos)]>>
    /\ UNCHANGED <<loadVars, iconFaults, laterVars, selectVars>>
    /\ UNCHANGED <<app, areas, photos, zoom, areaLayer, lastClusterState,
                   lastPass, firstPass, rep, size>>

NextPhotos ==
    \/ \E i \in DOMAIN areas : LegacyShowAreaInfo(i)
    \/ \E i \in DOMAIN areas : UIShowAreaInfo(i)

SpecPhotos == InitRender /\ [][NextPhotos]_vars

-----------------------------------------------------------------------------
(* PhotoMapApp.getRepresentativePhoto *)

MaxRepPhotos == 3
(* (photo.view_count || 0): 0 also stands for a missing view count *)
ViewCounts == {0, 1}
(* taken_at as a day number; new Date(a) > new Date(b) compares the days *)
TakenAts == {1, 2}

(* photos.reduce((best, photo) => (photo.view_count || 0) >                *)
(*     (best.view_count || 0) ? photo : best), from index k on             *)
RECURSIVE MostViewedFrom(_, _, _)
MostViewedFrom(ps, k, best) ==
    IF k > Len(ps) THEN best
    ELSE MostViewedFrom(ps, k + 1,
             IF ps[k].view_count > best.view_count THEN ps[k] ELSE best)

(* photos.reduce((newest, photo) => new Date(photo.taken_at) >             *)
(*     new Date(newest.taken_at) ? photo : newest), from index k on        *)
RECURSIVE NewestFrom(_, _, _)
NewestFrom(ps, k, newest) ==
    IF k > Len(ps) THEN newest
    ELSE NewestFrom(ps, k + 1,
             IF ps[k].taken_at > newest.taken_at THEN ps[k] ELSE newest)

(* The result is << >> for null, <<photo>> otherwise *)
getRepresentativePhoto(ps) ==
    IF Len(ps) = 0 THEN <<>>
    ELSE
      LET featuredPhotos == SelectSeq(ps, LAMBDA photo : photo.is_featured) IN
      IF Len(featuredPhotos) > 0
      THEN <<MostViewedFrom(featuredPhotos, 2, featuredPhotos[1])>>
      ELSE
        LET popularPhoto == MostViewedFrom(ps, 2, ps[1])
            sameViewCountPhotos == SelectSeq(ps, LAMBDA photo :
                photo.view_count = popularPhoto.view_count)
        IN <<NewestFrom(sameViewCountPhotos, 2, sameViewCountPhotos[1])>>

RepPhotoLists ==
    UNION {{[i \in 1..n |-> [id |-> i, is_featured |-> f[i][1],
                             view_count |-> f[i][2], taken_at |-> f[i][3]]] :
              f \in [1..n -> BOOLEAN \X ViewCounts \X TakenAts]} :
           n \in 0..MaxRepPhotos}

InitRep ==
    /\ app = "legacy"
    /\ areas = <<>>
    /\ photos \in RepPhotoLists
    /\ zoom = LEGACY_CONFIG_ZOOM
    /\ areaLayer = <<>>
    /\ lastClusterState = Null
    /\ lastPass = <<>>
    /\ firstPass = <<>>
    /\ shownArea = <<>>
    /\ rep = <<>>
    /\ size = <<>>
    /\ InitLoader
    /\ iconFaults = <<>>
    /\ InitSelection
    /\ InitLater

(* The call getRepresentativePhoto(clusterPhotos) of addAreaMarkers *)
GetRepresentativePhoto ==
    /\ rep' = <<[input |-> photos, result |-> getRepresentativePhoto(photos)]>>
    /\ UNCHANGED <<loadVars, iconFaults, laterVars, selectVars>>
    /\ UNCHANGED <<app, areas, photos, zoom, areaLayer, lastClusterState,
                   lastPass, firstPass, shownArea, size>>

NextRep == GetRepresentativePhoto

SpecRep == InitRep /\ [][NextRep]_vars

-----------------------------------------------------------------------------
(* getResponsiveMarkerSize over the zoom range of the map: a zoom change   *)
(* from the current zoom to z, with the size of a marker before and after  *)

SizeZooms == MIN_ZOOM..MAX_ZOOM

InitSize ==
    /\ app \in {"legacy", "refactored"}
    /\ areas = <<>>
    /\ photos = <<>>
    /\ zoom \in SizeZooms
    /\ areaLayer = <<>>
    /\ lastClusterState = Null
    /\ lastPass = <<>>
    /\ firstPass = <<>>
    /\ shownArea = <<>>
    /\ rep = <<>>
    /\ size = <<>>
    /\ InitLoader
    /\ iconFaults = <<>>
    /\ InitSelection
    /\ InitLater

LegacySizeOnZoom(z, isCluster) ==
    /\ app = "legacy"
    /\ zoom' = z
    /\ size' = <<[isCluster |-> isCluster,
                  z1 |-> zoom,
                  s1 |-> LegacyGetResponsiveMarkerSize(zoom, isCluster),
                  z2 |-> z,
                  s2 |-> LegacyGetResponsiveMarkerSize(z, isCluster)]>>
    /\ UNCHANGED <<loadVars, iconFaults, laterVars, selectVars>>
    /\ UNCHANGED <<app, areas, photos, areaLayer, lastClusterState,
                   lastPass, firstPass, shownArea, rep>>

MMSizeOnZoom(z, isCluster) ==
    /\ app = "refactored"
    /\ zoom' = z
    /\ size' = <<[isCluster |-> isCluster,
                  z1 |-> zoom,
                  s1 |-> MMGetResponsiveMarkerSize(zoom, isCluster),
                  z2 |-> z,
                  s2 |-> MMGetResponsiveMarkerSize(z, isCluster)]>>
    /\ UNCHANGED <<loadVars, iconFaults, laterVars, selectVars>>
    /\ UNCHANGED <<app, areas, photos, areaLayer, lastClusterState,
                   lastPass, firstPass, shownArea, rep>>

NextSize ==
    \/ \E z \in SizeZooms, c \in BOOLEAN : LegacySizeOnZoom(z, c)
    \/ \E z \in SizeZooms, c \in BOOLEAN : MMSizeOnZoom(z, c)

SpecSize == InitSize /\ [][NextSize]_vars

-----------------------------------------------------------------------------
(* Cluster ids: two clustering runs at the clustering zoom, one over the   *)
(* area list and one over the same areas in another order.  Area ids are   *)
(* distinct strings of one or two tokens; every area is active, has a      *)
(* radius of 1 km and a photo at its center.                               *)

MaxIdAreas == 4
IdPool == {<<1>>, <<2>>, <<3>>, <<1, 2>>, <<2, 3>>}
IdLats == {1, 4}

IdAreaLists ==
    UNION {{[i \in 1..n |-> AreaOf(ids[i], lats[i], 1, TRUE)] :
              ids \in {f \in [1..n -> IdPool] :
                          \A i, j \in 1..n : i # j => f[i] # f[j]},
              lats \in [1..n -> IdLats]} : n \in 1..MaxIdAreas}

Permuted(as, p) == [k \in DOMAIN as |-> as[p[k]]]

InitIds ==
    /\ app \in {"legacy", "refactored"}
    /\ areas \in IdAreaLists
    /\ photos = <<PhotoAt(1, 1), PhotoAt(2, 4)>>
    /\ zoom = CLUSTER_ZOOM_THRESHOLD
    /\ areaLayer = <<>>
    /\ lastClusterState = Null
    /\ lastPass = <<>>
    /\ firstPass = <<>>
    /\ shownArea = <<>>
    /\ rep = <<>>
    /\ size = <<>>
    /\ InitLoader
    /\ iconFaults = <<>>
    /\ InitSelection
    /\ InitLater

(* The record of a pass over the list `as` that left `markers` *)
PassOver(as, markers, after) ==
    [zoom |-> zoom, areas |-> as, photos |-> photos, markers |-> markers,
     after |-> after]

(* addAreaMarkers over this.areas, then over the areas in the order p *)
LegacyClusterRuns(p) ==
    /\ app = "legacy"
    /\ firstPass = <<>>
    /\ firstPass' = <<PassOver(areas,
                         LegacyAddAreaMarkers(areas, photos, zoom), 0)>>
    /\ lastPass' = <<PassOver(Permuted(areas, p),
                        LegacyAddAreaMarkers(Permuted(areas, p), photos, zoom),
                        zoom)>>
    /\ areaLayer' = lastPass'[1].markers
    /\ UNCHANGED <<loadVars, iconFaults, laterVars, selectVars>>
    /\ UNCHANGED <<app, areas, photos, zoom, lastClusterState, shownArea,
                   rep, size>>

MMClusterRuns(p) ==
    /\ app = "refactored"
    /\ firstPass = <<>>
    /\ firstPass' = <<PassOver(areas,
                         MMAddAreaMarkers(areas, photos, zoom), 0)>>
    /\ lastPass' = <<PassOver(Permuted(areas, p),
                        MMAddAreaMarkers(Permuted(areas, p), photos, zoom),
                        zoom)>>
    /\ areaLayer' = lastPass'[1].markers
    /\ UNCHANGED <<loadVars, iconFaults, laterVars, selectVars>>
    /\ UNCHANGED <<app, areas, photos, zoom, lastClusterState, shownArea,
                   rep, size>>

NextIds ==
    \/ \E p \in Permutations(DOMAIN areas) : LegacyClusterRuns(p)
    \/ \E p \in Permutations(DOMAIN areas) : MMClusterRuns(p)

SpecIds == InitIds /\ [][NextIds]_vars

-----------------------------------------------------------------------------
(* Areas with a missing center: a render pass over the area list, next to  *)
(* a pass over the list without the areas whose latitude or longitude is   *)
(* missing.  Every area is active and has a radius of 1 km.                *)

MaxGapAreas == 3
GapLats == {Missing, 1, 3}
GapLngs == {Missing, Meridian}

GapAreaLists ==
    UNION {{[i \in 1..n |-> AreaAt(<<i>>, f[i][1], f[i][2], 1, TRUE)] :
              f \in [1..n -> GapLats \X GapLngs]} : n \in 0..MaxGapAreas}

HasCenter(area) == area.center_lat # Missing /\ area.center_lng # Missing

InitGap ==
    /\ app \in {"legacy", "refactored"}
    /\ areas \in GapAreaLists
    /\ photos \in {<<PhotoAt(1, 1)>>, <<PhotoAt(1, 1), PhotoAt(2, 3)>>}
    /\ zoom \in {CLUSTER_ZOOM_THRESHOLD,
                 IF app = "legacy" THEN LEGACY_CONFIG_ZOOM ELSE MAP_ZOOM}
    /\ areaLayer = <<>>
    /\ lastClusterState = Null
    /\ lastPass = <<>>
    /\ firstPass = <<>>
    /\ shownArea = <<>>
    /\ rep = <<>>
    /\ size = <<>>
    /\ InitLoader
    /\ iconFaults = <<>>
    /\ InitSelection
    /\ InitLater

LegacyRenderWithGaps ==
    /\ app = "legacy"
    /\ firstPass = <<>>
    /\ firstPass' = <<PassOver(areas,
                         LegacyAddAreaMarkers(areas, photos, zoom), 0)>>
    /\ lastPass' = <<PassOver(SelectSeq(areas, HasCenter),
                        LegacyAddAreaMarkers(SelectSeq(areas, HasCenter),
                                             photos, zoom),
                        zoom)>>
    /\ areaLayer' = firstPass'[1].markers
    /\ UNCHANGED <<loadVars, iconFaults, laterVars, selectVars>>
    /\ UNCHANGED <<app, areas, photos, zoom, lastClusterState, shownArea,
                   rep, size>>

MMRenderWithGaps ==
    /\ app = "refactored"
    /\ firstPass = <<>>
    /\ firstPass' = <<PassOver(areas,
                         MMAddAreaMarkers(areas, photos, zoom), 0)>>
    /\ lastPass' = <<PassOver(SelectSeq(areas, HasCenter),
                        MMAddAreaMarkers(SelectSeq(areas, HasCenter),
                                         photos, zoom),
                        zoom)>>
    /\ areaLayer' = firstPass'[1].markers
    /\ UNCHANGED <<loadVars, iconFaults, laterVars, selectVars>>
    /\ UNCHANGED <<app, areas, photos, zoom, lastClusterState, shownArea,
                   rep, size>>

NextGap == LegacyRenderWithGaps \/ MMRenderWithGaps

SpecGap == InitGap /\ [][NextGap]_vars

-----------------------------------------------------------------------------
(* Loading the data: loadData of both applications, with fetchWithCache and *)
(* ErrorHandler.handle.  Time is counted in minutes.  The environment       *)
(* decides how each network fetch ends and which version of the files the   *)
(* server holds.                                                            *)

cacheExpiry == 5
maxRetries == 3

MaxTime == 6
MaxErrors == 4

Versions == {1, 2}

FetchOutcomes == {"ok", "networkError", "notOk", "malformed"}

(* The files on the server in version v *)
NetworkAreas(v) == [i \in 1..v |-> AreaOf(<<i>>, IF i = 1 THEN 1 ELSE 4, 1, TRUE)]

NetworkPhotos(v) == [i \in 1..v |-> PhotoAt(i, 1)]

NetworkData(k, v) == IF k = "photos" THEN NetworkPhotos(v) ELSE NetworkAreas(v)

(* loadEmbeddedData: three areas about a kilometre apart, and the photos *)
EmbeddedAreas ==
    <<AreaOf(<<1>>, 2, 1, TRUE), AreaOf(<<2>>, 1, 1, TRUE),
      AreaOf(<<3>>, 3, 1, TRUE)>>

DMEmbeddedPhotos == <<PhotoAt(1, 2)>>

LegacyEmbeddedPhotos == <<PhotoAt(1, 2), PhotoAt(2, 1)>>

(* The body a network fetch that ended in `outcome` delivers *)
BodyOf(outcome, k, v) ==
    [valid |-> outcome = "ok",
     data |-> IF outcome = "ok" THEN NetworkData(k, v) ELSE <<>>]

NoResponse == [body |-> [valid |-> FALSE, data |-> <<>>], bodyUsed |-> TRUE]

(* cached && (Date.now() - cached.timestamp) < this.cacheExpiry *)
CacheHit(k) == cache[k] # <<>> /\ now - cache[k][1].timestamp < cacheExpiry

(* DataManager.fetchWithCache for key k: on a hit the cached Response       *)
(* object itself; otherwise a network fetch, which throws on a network      *)
(* error or a status that is not ok, and else stores response.clone()       *)
fetchWithCache(k, outcome, v) ==
    IF CacheHit(k)
    THEN [threw |-> FALSE, network |-> FALSE,
          response |-> cache[k][1].response, entry |-> cache[k]]
    ELSE IF outcome \in {"networkError", "notOk"}
    THEN [threw |-> TRUE, network |-> TRUE,
          response |-> NoResponse, entry |-> cache[k]]
    ELSE [threw |-> FALSE, network |-> TRUE,
          response |-> [body |-> BodyOf(outcome, k, v), bodyUsed |-> FALSE],
          entry |-> <<[response |-> [body |-> BodyOf(outcome, k, v),
                                      bodyUsed |-> FALSE],
                       timestamp |-> now]>>]

(* response.json(): rejects when the body was read before or is not JSON *)
JsonOk(response) == ~response.bodyUsed /\ response.body.valid

(* The cache entry after json() was called on the response of r: a cached   *)
(* Response object that was handed out has its body read                    *)
EntryAfterJson(r) ==
    IF r.network THEN r.entry
    ELSE <<[r.entry[1] EXCEPT !.response.bodyUsed = TRUE]>>

(* What can be read from the response fetchWithCache yielded *)
Readable(r) ==
    IF ~r.threw /\ JsonOk(r.response) THEN <<r.response.body.data>> ELSE <<>>

(* The last successful network fetch of a key after the call *)
FetchedAfter(k, r) ==
    IF r.network /\ ~r.threw
    THEN <<[at |-> now, body |-> r.response.body]>>
    ELSE fetched[k]

(* Mutant: handle is called with retry: true *)
HandleWithRetry(retry, count) ==
    IF count < maxRetries THEN "retry" ELSE "fallback"

(* ErrorHandler.handle with a fallback, after updateErrorCount: a retry is  *)
(* announced if the retry option is set and shouldRetry, else the fallback  *)
(* runs                                                                     *)
ErrorHandlerHandle(retry, count) ==
    IF retry /\ count < maxRetries THEN "retry" ELSE "fallback"

(* The record of a loadData call *)
LoadCall(outcome, returned, fetch, attempts, yielded) ==
    [at |-> now, outcome |-> outcome, returned |-> returned, fetch |-> fetch,
     attempts |-> attempts, yielded |-> yielded, before |-> fetched]

InitLoad ==
    /\ app \in {"legacy", "refactored"}
    /\ areas = <<>>
    /\ photos = <<>>
    /\ zoom = IF app = "legacy" THEN LEGACY_CONFIG_ZOOM ELSE MAP_ZOOM
    /\ areaLayer = <<>>
    /\ lastClusterState = Null
    /\ lastPass = <<>>
    /\ firstPass = <<>>
    /\ shownArea = <<>>
    /\ rep = <<>>
    /\ size = <<>>
    /\ InitLoader
    /\ iconFaults = <<>>
    /\ InitSelection
    /\ InitLater

(* DataManager.loadData: both files through fetchWithCache in parallel,     *)
(* then both json() calls; any failure goes to ErrorHandler.handle, called  *)
(* without the retry option and with loadEmbeddedData as the fallback       *)
DMLoadData(op, oa, v) ==
    LET rp == fetchWithCache("photos", op, v)
        ra == fetchWithCache("areas", oa, v)
        r == [k \in Keys |-> IF k = "photos" THEN rp ELSE ra]
        threw == rp.threw \/ ra.threw
        failed == threw \/ ~JsonOk(rp.response) \/ ~JsonOk(ra.response)
        result == ErrorHandlerHandle(FALSE, errorCounts + 1)
        fetch == [k \in Keys |->
                    IF ~r[k].network THEN "none"
                    ELSE IF k = "photos" THEN op ELSE oa]
        attempts == [k \in Keys |-> IF r[k].network THEN 1 ELSE 0]
        yielded == [k \in Keys |-> Readable(r[k])]
    IN
    /\ app = "refactored"
    /\ failed => errorCounts < MaxErrors
    /\ cache' = [k \in Keys |->
                    IF threw THEN r[k].entry ELSE EntryAfterJson(r[k])]
    /\ fetched' = [k \in Keys |-> FetchedAfter(k, r[k])]
    /\ IF ~failed
       THEN /\ photos' = rp.response.body.data
            /\ areas' = ra.response.body.data
            /\ errorCounts' = errorCounts
            /\ load' = <<LoadCall("resolved",
                            <<[photos |-> photos', areas |-> areas']>>,
                            fetch, attempts, yielded)>>
       ELSE /\ errorCounts' = errorCounts + 1
            /\ IF result = "fallback"
               THEN /\ photos' = DMEmbeddedPhotos
                    /\ areas' = EmbeddedAreas
                    /\ load' = <<LoadCall("resolved",
                                    <<[photos |-> photos', areas |-> areas']>>,
                                    fetch, attempts, yielded)>>
               ELSE /\ UNCHANGED <<photos, areas>>
                    /\ load' = <<LoadCall("rejected", <<>>,
                                    fetch, attempts, yielded)>>
    /\ UNCHANGED <<app, zoom, areaLayer, lastClusterState, lastPass, firstPass,
                   shownArea, rep, size, now, iconFaults, laterVars, selectVars>>

(* PhotoMapApp.loadData: the photos file, then the areas file; any failure  *)
(* goes to loadEmbeddedData; nothing is returned                            *)
LegacyLoadData(op, oa, v) ==
    LET photosOk == op = "ok"
        areasOk == photosOk /\ oa = "ok"
        fetch == [k \in Keys |->
                    IF k = "photos" THEN op
                    ELSE IF photosOk THEN oa ELSE "none"]
        attempts == [k \in Keys |-> IF fetch[k] = "none" THEN 0 ELSE 1]
        yielded == [k \in Keys |->
                      IF fetch[k] = "ok" THEN <<NetworkData(k, v)>> ELSE <<>>]
    IN
    /\ app = "legacy"
    /\ fetched' = [k \in Keys |->
                      IF fetch[k] \in {"ok", "malformed"}
                      THEN <<[at |-> now, body |-> BodyOf(fetch[k], k, v)]>>
                      ELSE fetched[k]]
    /\ IF areasOk
       THEN /\ photos' = NetworkPhotos(v)
            /\ areas' = NetworkAreas(v)
       ELSE /\ photos' = LegacyEmbeddedPhotos
            /\ areas' = EmbeddedAreas
    /\ load' = <<LoadCall("resolved", <<>>, fetch, attempts, yielded)>>
    /\ UNCHANGED <<app, zoom, areaLayer, lastClusterState, lastPass, firstPass,
                   shownArea, rep, size, cache, now, errorCounts,
                   iconFaults, laterVars, selectVars>>

(* A minute passes *)
Tick ==
    /\ now < MaxTime
    /\ now' = now + 1
    /\ UNCHANGED <<app, areas, photos, zoom, areaLayer, lastClusterState,
                   lastPass, firstPass, shownArea, rep, size, cache,
                   errorCounts, load, fetched, iconFaults, laterVars, selectVars>>

NextLoad ==
    \/ \E op \in FetchOutcomes, oa \in FetchOutcomes, v \in Versions :
           DMLoadData(op, oa, v)
    \/ \E op \in FetchOutcomes, oa \in FetchOutcomes, v \in Versions :
           LegacyLoadData(op, oa, v)
    \/ Tick

SpecLoad == InitLoad /\ [][NextLoad]_vars

-----------------------------------------------------------------------------
(* Render passes in which icon constructions fail.  The k-th icon of a pass *)
(* ends as "svg" (the SVG icon was built), "fallback" (the SVG construction *)
(* threw, the fallback icon was built) or "none" (the fallback threw too).  *)

MaxIconAreas == 3

IconOutcomes == {"svg", "fallback", "none"}

IconLats == {1, 4}

IconAreaLists ==
    UNION {{[i \in 1..n |-> AreaOf(<<i>>, f[i], 1, TRUE)] :
              f \in [1..n -> IconLats]} : n \in 1..MaxIconAreas}

IconOutcome(faults, k) == IF k \in DOMAIN faults THEN faults[k] ELSE "svg"

WithIcon(marker, icon) ==
    [cluster |-> marker.cluster, photoCount |-> marker.photoCount,
     iconSize |-> marker.iconSize, icon |-> icon]

(* PhotoMapApp.addAreaMarkers: the fallback icon is built inside the catch  *)
(* block of the SVG construction, within the forEach callback; when it      *)
(* throws, the exception leaves forEach and the pass ends there             *)
LegacyAddAreaMarkersWithFaults(as, ps, z, faults) ==
    LET all == LegacyAddAreaMarkers(as, ps, z)
        thrown == {k \in DOMAIN all : IconOutcome(faults, k) = "none"}
        last == IF thrown = {} THEN Len(all)
                ELSE (CHOOSE k \in thrown : \A j \in thrown : k <= j) - 1
    IN [k \in 1..last |-> WithIcon(all[k], IconOutcome(faults, k))]

(* MarkerManager.createAreaMarker: the fallback runs inside                 *)
(* ErrorHandler.handle, which catches what it throws; the marker then gets  *)
(* Leaflet's default icon                                                   *)
MMAddAreaMarkersWithFaults(as, ps, z, faults) ==
    LET all == MMAddAreaMarkers(as, ps, z)
    IN [k \in DOMAIN all |->
           WithIcon(all[k], IF IconOutcome(faults, k) = "none" THEN "default"
                            ELSE IconOutcome(faults, k))]

InitIcons ==
    /\ app \in {"legacy", "refactored"}
    /\ areas \in IconAreaLists
    /\ photos = <<PhotoAt(1, 1), PhotoAt(2, 4)>>
    /\ zoom \in {CLUSTER_ZOOM_THRESHOLD,
                 IF app = "legacy" THEN LEGACY_CONFIG_ZOOM ELSE MAP_ZOOM}
    /\ areaLayer = <<>>
    /\ lastClusterState = Null
    /\ lastPass = <<>>
    /\ firstPass = <<>>
    /\ shownArea = <<>>
    /\ rep = <<>>
    /\ size = <<>>
    /\ InitLoader
    /\ iconFaults \in [1..MaxIconAreas -> IconOutcomes]
    /\ InitSelection
    /\ InitLater

(* PhotoMapApp.refreshAreaMarkers while icon constructions fail *)
LegacyRefreshWithIconFaults ==
    /\ app = "legacy"
    /\ areaLayer' = LegacyAddAreaMarkersWithFaults(areas, photos, zoom,
                                                   iconFaults)
    /\ lastPass' = <<PassOver(areas, areaLayer', 0)>>
    /\ firstPass' = IF firstPass = <<>> THEN lastPass' ELSE firstPass
    /\ UNCHANGED <<loadVars, iconFaults, laterVars, selectVars>>
    /\ UNCHANGED <<app, areas, photos, zoom, lastClusterState, shownArea,
                   rep, size>>

(* MarkerManager.refreshAreaMarkers while icon constructions fail *)
MMRefreshWithIconFaults ==
    /\ app = "refactored"
    /\ areaLayer' = MMAddAreaMarkersWithFaults(areas, photos, zoom,
                                               iconFaults)
    /\ lastPass' = <<PassOver(areas, areaLayer', 0)>>
    /\ firstPass' = IF firstPass = <<>> THEN lastPass' ELSE firstPass
    /\ selectedCluster' = <<>>
    /\ UNCHANGED <<loadVars, iconFaults, laterVars, lastEvent, timerPending>>
    /\ UNCHANGED <<app, areas, photos, zoom, lastClusterState, shownArea,
                   rep, size>>

NextIcons == LegacyRefreshWithIconFaults \/ MMRefreshWithIconFaults

SpecIcons == InitIcons /\ [][NextIcons]_vars

-----------------------------------------------------------------------------
(* The selection of the MarkerManager and the events that reach it *)

MaxSelectAreas == 2

SelectLats == {1, 3}

SelectAreaLists ==
    UNION {{[i \in 1..n |-> AreaOf(<<i>>, f[i][1], 1, f[i][2])] :
              f \in [1..n -> SelectLats \X BOOLEAN]} : n \in 1..MaxSelectAreas}

(* markerLookup.get(id): the lookup holds the markers on the layer by the   *)
(* id of their cluster                                                      *)
MarkerLookupHas(id) == \E k \in DOMAIN areaLayer : areaLayer[k].cluster.id = id

(* selectMarker(cluster): deselectCurrentMarker, then the cluster is        *)
(* selected if the lookup knows its id                                      *)
selectMarker(id) == IF MarkerLookupHas(id) THEN <<id>> ELSE <<>>

InitSelect ==
    /\ app = "refactored"
    /\ areas \in SelectAreaLists
    /\ photos = <<PhotoAt(1, 1), PhotoAt(2, 3)>>
    /\ zoom = MAP_ZOOM
    /\ areaLayer = <<>>
    /\ lastClusterState = Null
    /\ lastPass = <<>>
    /\ firstPass = <<>>
    /\ shownArea = <<>>
    /\ rep = <<>>
    /\ size = <<>>
    /\ InitLoader
    /\ iconFaults = <<>>
    /\ selectedCluster = <<>>
    /\ lastEvent = "none"
    /\ timerPending = TRUE
    /\ InitLater

(* The first render, and MARKERS_UPDATED or an added photo afterwards:      *)
(* refreshAreaMarkers                                                       *)
OnMarkersUpdated ==
    /\ MMRefreshStep
    /\ lastEvent' = "refresh"
    /\ UNCHANGED timerPending

(* zoomend at zoom z *)
OnZoomEnd(z) ==
    /\ MMHandleZoomChangeStep(z)
    /\ lastEvent' = "zoomend"
    /\ UNCHANGED timerPending

(* The user clicks or taps the k-th marker: handleMarkerClick(cluster) *)
OnMarkerClick(k) ==
    /\ app = "refactored"
    /\ k \in DOMAIN areaLayer
    /\ selectedCluster' = selectMarker(areaLayer[k].cluster.id)
    /\ lastEvent' = "click"
    /\ UNCHANGED <<app, areas, photos, zoom, areaLayer, lastClusterState,
                   lastPass, firstPass, shownArea, rep, size,
                   loadVars, iconFaults, laterVars, timerPending>>

(* The user clicks the map: deselectAllMarkers *)
OnMapClick ==
    /\ app = "refactored"
    /\ lastPass # <<>>
    /\ selectedCluster' = <<>>
    /\ lastEvent' = "click"
    /\ UNCHANGED <<app, areas, photos, zoom, areaLayer, lastClusterState,
                   lastPass, firstPass, shownArea, rep, size,
                   loadVars, iconFaults, laterVars, timerPending>>

(* The timer of runPostInitializationTests fires two seconds after the      *)
(* initialization: handleMarkerClick(areas[0], null) on the first active    *)
(* area                                                                     *)
OnPostInitTimer ==
    LET active == SelectSeq(areas, LAMBDA a : a.is_active) IN
    /\ app = "refactored"
    /\ lastPass # <<>>
    /\ timerPending
    /\ timerPending' = FALSE
    /\ selectedCluster' = IF Len(active) > 0
                          THEN selectMarker(AreaId(active[1]))
                          ELSE selectedCluster
    /\ lastEvent' = "timer"
    /\ UNCHANGED <<app, areas, photos, zoom, areaLayer, lastClusterState,
                   lastPass, firstPass, shownArea, rep, size,
                   loadVars, iconFaults, laterVars>>

NextSelect ==
    \/ OnMarkersUpdated
    \/ \E z \in ZoomLevels : OnZoomEnd(z)
    \/ \E k \in 1..MaxSelectAreas : OnMarkerClick(k)
    \/ OnMapClick
    \/ OnPostInitTimer

SpecSelect == InitSelect /\ [][NextSelect]_vars

-----------------------------------------------------------------------------
(* The page before any data is loaded or drawn *)
InitBase ==
    /\ app = "refactored"
    /\ areas = <<>>
    /\ photos = <<>>
    /\ zoom = MAP_ZOOM
    /\ areaLayer = <<>>
    /\ lastClusterState = Null
    /\ lastPass = <<>>
    /\ firstPass = <<>>
    /\ shownArea = <<>>
    /\ rep = <<>>
    /\ size = <<>>
    /\ InitLoader
    /\ iconFaults = <<>>
    /\ InitSelection

-----------------------------------------------------------------------------
(* EventEmitter.  A listener object carries, besides the fields the code    *)
(* gives it, what its function does when it is called: "plain" returns,     *)
(* "throws" throws, "offSelf" removes itself with off(eventName, id),       *)
(* "onHigher" registers a further listener of the next higher priority,     *)
(* and "emits" emits the event again unless it runs inside such an emit.    *)
(* Emits are synchronous (options.async = false).                           *)

MaxListeners == 2
MaxEmits == 2

(* A listener may register one listener more than on() did from outside *)
MaxIds == MaxListeners + 1

Priorities == {0, 1}
Contexts == {"c1", "c2"}
Behaviours == {"plain", "throws", "offSelf", "onHigher", "emits"}

ListenerObj(id, priority, once, context, does) ==
    [id |-> id, priority |-> priority, once |-> once, context |-> context,
     does |-> does]

(* listeners.sort((a, b) => b.priority - a.priority): a stable sort, by     *)
(* insertion from the left                                                  *)
RECURSIVE SortByPriority(_)
SortByPriority(ls) ==
    IF ls = <<>> THEN <<>>
    ELSE LET sorted == SortByPriority(SubSeq(ls, 1, Len(ls) - 1))
             l == ls[Len(ls)]
             k == Cardinality({i \in DOMAIN sorted :
                                   sorted[i].priority >= l.priority})
         IN IF \A i \in DOMAIN sorted :
                   sorted[i].priority >= l.priority => i <= k
            THEN SubSeq(sorted, 1, k) \o <<l>>
                     \o SubSeq(sorted, k + 1, Len(sorted))
            ELSE LET first == CHOOSE i \in DOMAIN sorted :
                                /\ sorted[i].priority < l.priority
                                /\ \A j \in 1..(i - 1) :
                                       sorted[j].priority >= l.priority
                 IN SubSeq(sorted, 1, first - 1) \o <<l>>
                        \o SubSeq(sorted, first, Len(sorted))

(* Mutant: the listener is pushed and the array is left as it is *)
PushUnsorted(ls, l) == Append(ls, l)

(* listeners.push(listenerObj); listeners.sort(...) *)
PushAndSort(ls, l) == SortByPriority(Append(ls, l))

(* off(eventName, id): splice of the first listener with that id *)
Spliced(ls, id) == SelectSeq(ls, LAMBDA l : l.id # id)

RECURSIVE SplicedAll(_, _)
SplicedAll(ls, ids) ==
    IF ids = <<>> THEN ls ELSE SplicedAll(Spliced(ls, Head(ids)), Tail(ids))

(* offAll(context): every array is replaced by its filter; the count adds   *)
(* initialLength - listeners.length, where listeners is the array that was  *)
(* filtered, not the result                                                 *)
OffAllEvents(evs, context) ==
    [e \in EventNames |-> SelectSeq(evs[e], LAMBDA l : l.context # context)]

OffAllCount(evs, context) ==
    LET initialLength(e) == Len(evs[e])
        listenersLength(e) == Len(evs[e])
    IN SumSeq([k \in 1..2 |->
                 LET e == IF k = 1 THEN "a" ELSE "b"
                 IN initialLength(e) - listenersLength(e)])

(* The record of an emit call: the listeners registered when it started,    *)
(* the ids removed while it ran, the listeners it invoked, in order         *)
EmitRecord(ls) ==
    [start |-> [k \in DOMAIN ls |-> ls[k]], removed |-> {}, invoked |-> <<>>,
     done |-> FALSE]

Frame(e, n) ==
    [event |-> e, emit |-> n, index |-> 1, toRemove |-> <<>>,
     inCall |-> FALSE, current |-> <<>>]

InitBusSpec ==
    /\ InitBase
    /\ InitLater

busFrame == <<baseVars, call, errorCountsOf, tailVars>>

(* on(eventName, listener, {context, priority, once}) outside an emit;      *)
(* listeners of event "b" are plain                                         *)
On(e, priority, once, context, does) ==
    /\ dispatch = <<>>
    /\ nextId < MaxListeners
    /\ e = "b" => (priority = 0 /\ ~once /\ does = "plain")
    /\ nextId' = nextId + 1
    /\ events' = [events EXCEPT ![e] =
           PushAndSort(@, ListenerObj(nextId', priority, once, context, does))]
    /\ UNCHANGED <<dispatch, emits, busFrame>>

(* off(eventName, id) outside an emit *)
Off(e, id) ==
    /\ dispatch = <<>>
    /\ \E k \in DOMAIN events[e] : events[e][k].id = id
    /\ events' = [events EXCEPT ![e] = Spliced(@, id)]
    /\ UNCHANGED <<dispatch, emits, nextId, busFrame>>

(* offAll(context) outside an emit *)
OffAll(context) ==
    /\ dispatch = <<>>
    /\ events' = OffAllEvents(events, context)
    /\ call' = <<[op |-> "offAll", context |-> context, before |-> events,
                  result |-> OffAllCount(events, context)]>>
    /\ UNCHANGED <<dispatch, emits, nextId, baseVars, errorCountsOf, tailVars>>

(* emit(eventName) outside an emit: the loop starts *)
Emit(e) ==
    /\ dispatch = <<>>
    /\ Len(emits) < MaxEmits
    /\ events[e] # <<>>
    /\ emits' = Append(emits, EmitRecord(events[e]))
    /\ dispatch' = <<Frame(e, Len(emits'))>>
    /\ UNCHANGED <<events, nextId, busFrame>>

(* One turn of the for...of loop of the innermost emit: the array iterator  *)
(* reads the live array at its index; the listener runs; a listener that    *)
(* returned and is a once listener is noted for removal                     *)
EmitTurn ==
    /\ dispatch # <<>>
    /\ LET d == Len(dispatch)
           f == dispatch[d]
           ls == events[f.event]
       IN /\ ~f.inCall
          /\ f.index <= Len(ls)
          /\ LET l == ls[f.index]
                 noted == IF l.once THEN Append(f.toRemove, l.id)
                          ELSE f.toRemove
                 logged == [emits EXCEPT ![f.emit].invoked = Append(@, l)]
             IN CASE l.does = "plain" ->
                       /\ dispatch' = [dispatch EXCEPT ![d].index = @ + 1,
                                                       ![d].toRemove = noted]
                       /\ emits' = logged
                       /\ UNCHANGED <<events, nextId>>
                  [] l.does = "throws" ->
                       /\ dispatch' = [dispatch EXCEPT ![d].index = @ + 1]
                       /\ emits' = logged
                       /\ UNCHANGED <<events, nextId>>
                  [] l.does = "offSelf" ->
                       /\ events' = [events EXCEPT ![f.event] = Spliced(@, l.id)]
                       /\ dispatch' = [dispatch EXCEPT ![d].index = @ + 1,
                                                       ![d].toRemove = noted]
                       /\ emits' = [k \in DOMAIN logged |->
                                      IF logged[k].done THEN logged[k]
                                      ELSE [logged[k] EXCEPT
                                              !.removed = @ \cup {l.id}]]
                       /\ UNCHANGED nextId
                  [] l.does = "onHigher" ->
                       /\ IF nextId < MaxIds
                          THEN /\ nextId' = nextId + 1
                               /\ events' = [events EXCEPT ![f.event] =
                                     PushAndSort(@, ListenerObj(nextId',
                                         l.priority + 1, FALSE, l.context,
                                         "plain"))]
                          ELSE UNCHANGED <<events, nextId>>
                       /\ dispatch' = [dispatch EXCEPT ![d].index = @ + 1,
                                                       ![d].toRemove = noted]
                       /\ emits' = logged
                  [] l.does = "emits" ->
                       /\ IF d = 1 /\ Len(emits) < MaxEmits
                          THEN /\ emits' = Append(logged, EmitRecord(ls))
                               /\ dispatch' = Append(
                                     [dispatch EXCEPT ![d].inCall = TRUE,
                                                      ![d].current = <<l>>],
                                     Frame(f.event, Len(emits')))
                          ELSE /\ emits' = logged
                               /\ dispatch' = [dispatch EXCEPT
                                                 ![d].index = @ + 1,
                                                 ![d].toRemove = noted]
                       /\ UNCHANGED <<events, nextId>>
    /\ UNCHANGED busFrame

(* The emit a listener made has returned: the listener returns *)
EmitResume ==
    /\ dispatch # <<>>
    /\ LET d == Len(dispatch)
           f == dispatch[d]
           l == f.current[1]
       IN /\ f.inCall
          /\ dispatch' = [dispatch EXCEPT
                            ![d].inCall = FALSE,
                            ![d].current = <<>>,
                            ![d].index = @ + 1,
                            ![d].toRemove = IF l.once THEN Append(@, l.id)
                                            ELSE @]
    /\ UNCHANGED <<events, emits, nextId, busFrame>>

(* The loop of the innermost emit is over: the once listeners it noted are  *)
(* removed with off(eventName, id), and emit returns                        *)
EmitReturn ==
    /\ dispatch # <<>>
    /\ LET d == Len(dispatch)
           f == dispatch[d]
           gone == {f.toRemove[k] : k \in DOMAIN f.toRemove}
       IN /\ ~f.inCall
          /\ f.index > Len(events[f.event])
          /\ events' = [events EXCEPT ![f.event] = SplicedAll(@, f.toRemove)]
          /\ emits' = [k \in DOMAIN emits |->
                         IF k = f.emit THEN [emits[k] EXCEPT !.done = TRUE]
                         ELSE IF emits[k].done THEN emits[k]
                         ELSE [emits[k] EXCEPT !.removed = @ \cup gone]]
          /\ dispatch' = SubSeq(dispatch, 1, d - 1)
    /\ UNCHANGED <<nextId, busFrame>>

NextBus ==
    \/ \E e \in EventNames, priority \in Priorities, once \in BOOLEAN,
          context \in Contexts, does \in Behaviours :
           On(e, priority, once, context, does)
    \/ \E e \in EventNames, id \in 1..MaxIds : Off(e, id)
    \/ \E context \in Contexts : OffAll(context)
    \/ \E e \in EventNames : Emit(e)
    \/ EmitTurn
    \/ EmitResume
    \/ EmitReturn

SpecBus == InitBusSpec /\ [][NextBus]_vars

-----------------------------------------------------------------------------
(* ErrorHandler.handle and its retry budget                                 *)

(* What a caller passes as options.fallback *)
Fallbacks == {"none", "returns", "throws"}

(* handle(error, context, {retry, fallback}): the counter of the context is *)
(* updated first, then the retry is decided, then the fallback runs         *)
Handle(context, retry, fallback) ==
    LET count == errorCountsOf[context] + 1
        decided == ErrorHandlerHandle(retry, count)
    IN  /\ errorCountsOf[context] < MaxErrors
        /\ errorCountsOf' = [errorCountsOf EXCEPT ![context] = count]
        /\ call' = <<[op |-> "handle", context |-> context, retry |-> retry,
                      fallback |-> fallback, nth |-> count,
                      granted |-> (decided = "retry"),
                      ranFallback |-> (decided # "retry"
                                         /\ fallback # "none")]>>
        /\ UNCHANGED <<baseVars, busVars, tailVars>>

(* resetErrorCounts() *)
ResetErrorCounts ==
    /\ errorCountsOf' = [c \in HandleContexts |-> 0]
    /\ call' = <<[op |-> "resetErrorCounts"]>>
    /\ UNCHANGED <<baseVars, busVars, tailVars>>

InitRetry == InitBase /\ InitLater

NextRetry ==
    \/ \E context \in HandleContexts, retry \in BOOLEAN,
          fallback \in Fallbacks : Handle(context, retry, fallback)
    \/ ResetErrorCounts

SpecRetry == InitRetry /\ [][NextRetry]_vars

-----------------------------------------------------------------------------
(* ImageHandler.setupImageFallback: the retry chain of one image            *)

MaxRetryUrls == 3
MaxErrorEvents == 5

Urls == {"alt1", "alt2", "alt3"}
OriginalSrc == "original"
FallbackSVG == "data:image/svg+xml"

(* The lists generateAlternativeUrls can return: distinct alternatives *)
RetryUrlLists ==
    {us \in UNION {[1..n -> Urls] : n \in 0..MaxRetryUrls} :
        \A i, j \in DOMAIN us : i # j => us[i] # us[j]}

(* Mutant: the index is not advanced *)
RetryIndexKept(retryIndex) == retryIndex

(* retryUrls[retryIndex++] leaves the index one further *)
RetryIndexAfter(retryIndex) == retryIndex + 1

(* setupImageFallback(imgElement, {retryUrls, onError}): a new closure with *)
(* retryIndex = 0; the caller has assigned the original src just before     *)
SetupImageFallback(retryUrls, hasOnError) ==
    /\ img' = <<[src |-> OriginalSrc, retryUrls |-> retryUrls,
                 retryIndex |-> 0, onerror |-> TRUE,
                 hasOnError |-> hasOnError, loaded |-> FALSE,
                 assigned |-> <<>>, onErrorCalls |-> 0, handled |-> 0,
                 errorEvents |-> 0]>>
    /\ UNCHANGED <<baseVars, busVars, call, errorCountsOf, markerVars, panel>>

(* An error event on the image: imgElement.onerror, if still installed *)
ImgOnError ==
    /\ img # NoImage
    /\ img[1].errorEvents < MaxErrorEvents
    /\ LET i == img[1]
           e == [i EXCEPT !.errorEvents = @ + 1, !.loaded = FALSE]
       IN  img' =
             IF ~i.onerror THEN <<e>>
             ELSE IF i.retryIndex < Len(i.retryUrls)
             THEN <<[e EXCEPT !.src = i.retryUrls[i.retryIndex + 1],
                              !.retryIndex = RetryIndexAfter(i.retryIndex),
                              !.assigned = Append(@,
                                             i.retryUrls[i.retryIndex + 1]),
                              !.handled = @ + 1]>>
             ELSE <<[e EXCEPT !.onerror = FALSE,
                              !.src = FallbackSVG,
                              !.onErrorCalls =
                                  IF i.hasOnError THEN @ + 1 ELSE @,
                              !.handled = @ + 1]>>
    /\ UNCHANGED <<baseVars, busVars, call, errorCountsOf, markerVars, panel>>

(* A load event on the image: imgElement.onload *)
ImgOnLoad ==
    /\ img # NoImage
    /\ ~img[1].loaded
    /\ img' = <<[img[1] EXCEPT !.loaded = TRUE]>>
    /\ UNCHANGED <<baseVars, busVars, call, errorCountsOf, markerVars, panel>>

InitImage == InitBase /\ InitLater

NextImage ==
    \/ \E retryUrls \in RetryUrlLists, hasOnError \in BOOLEAN :
          SetupImageFallback(retryUrls, hasOnError)
    \/ ImgOnError
    \/ ImgOnLoad

SpecImage == InitImage /\ [][NextImage]_vars

-----------------------------------------------------------------------------
(* MarkerManager.refreshAreaMarkers step by step.  addAreaMarkers is an     *)
(* async function nobody awaits: it runs up to its first await inside the   *)
(* call and continues from the microtask queue, one awaited                 *)
(* createAreaMarker per turn.  A marker carries a serial number here, which *)
(* stands for the identity of the marker object.                            *)

MaxRefreshes == 3
MaxInterleaveAreas == 3
MaxInterleavePhotos == 3

InterleaveAreaLists ==
    UNION {{[i \in 1..n |-> AreaOf(<<i>>, f[i][1], 1, f[i][2])] :
              f \in [1..n -> SelectLats \X BOOLEAN]} :
                 n \in 1..MaxInterleaveAreas}

(* photosInArea of the loop body, with the photos of the moment *)
MMPhotosOfCluster(c, ps) ==
    IF c.isCluster THEN c.photos ELSE DMGetPhotosInArea(AsArea(c), ps)

(* The loop runs on without suspending over clusters that have no photos:   *)
(* the index of the next cluster createAreaMarker is awaited for, or        *)
(* Len(clusters) + 1                                                        *)
RECURSIVE NextAwaited(_, _, _)
NextAwaited(clusters, i, ps) ==
    IF i > Len(clusters) THEN i
    ELSE IF Len(MMPhotosOfCluster(clusters[i], ps)) > 0 THEN i
    ELSE NextAwaited(clusters, i + 1, ps)

(* createAreaMarker returns early for a cluster without center or inactive *)
MMCreates(c) ==
    c.center.num # Missing /\ c.center.lngNum # Missing /\ c.is_active

SerialMarker(c, ps, z, serial) ==
    [cluster |-> c, photoCount |-> Len(MMPhotosOfCluster(c, ps)),
     iconSize |-> MMGetResponsiveMarkerSize(z, c.isCluster),
     serial |-> serial]

(* markerLookup.set(cluster.id, {marker, ...}) *)
LookupSet(lookup, id, serial) == (id :> serial) @@ lookup

(* One run of the loop from index `from` to its next await, on layer and    *)
(* lookup as they are; `queue` are the other suspended loops                *)
RunLoop(clusters, from, ps, layer, lookup, queue) ==
    LET j == NextAwaited(clusters, from, ps)
    IN  IF j > Len(clusters)
        THEN /\ loops' = queue
             /\ areaLayer' = layer
             /\ markerLookup' = lookup
             /\ created' = created
        ELSE /\ loops' = Append(queue, [clusters |-> clusters, from |-> j + 1])
             /\ IF MMCreates(clusters[j])
                THEN /\ areaLayer' = Append(layer,
                            SerialMarker(clusters[j], ps, zoom, created + 1))
                     /\ markerLookup' =
                            LookupSet(lookup, clusters[j].id, created + 1)
                     /\ created' = created + 1
                ELSE /\ areaLayer' = layer
                     /\ markerLookup' = lookup
                     /\ created' = created

interleaveFrame == <<app, areas, zoom, lastClusterState, lastPass, firstPass,
                     shownArea, rep, size, loadVars, iconFaults, lastEvent,
                     timerPending, busVars, call, errorCountsOf, img, panel>>

(* refreshAreaMarkers() with the photos ps: clearAreaMarkers, then          *)
(* addAreaMarkers up to its first await                                     *)
StartRefresh(ps) ==
    /\ areas # <<>>
    /\ refreshes < MaxRefreshes
    /\ refreshes' = refreshes + 1
    /\ selectedCluster' = <<>>
    /\ RunLoop(createClusters(areas, ps, zoom), 1, ps, <<>>, <<>>, loops)

(* The MARKERS_UPDATED listener, or any other caller *)
RefreshAreaMarkersCall ==
    /\ StartRefresh(photos)
    /\ UNCHANGED <<photos, interleaveFrame>>

(* The photo form: the photo is pushed, then refreshAreaMarkers() *)
AddPhotoAndRefresh(lat) ==
    /\ Len(photos) < MaxInterleavePhotos
    /\ photos' = Append(photos, PhotoAt(Len(photos) + 1, lat))
    /\ StartRefresh(photos')
    /\ UNCHANGED interleaveFrame

(* The microtask at the head of the queue: a suspended loop goes on *)
LoopTurn ==
    /\ loops # <<>>
    /\ RunLoop(Head(loops).clusters, Head(loops).from, photos,
               areaLayer, markerLookup, Tail(loops))
    /\ UNCHANGED <<photos, refreshes, selectedCluster, interleaveFrame>>

InitInterleave ==
    /\ InitBase
    /\ InitLater

(* The data arrives: loadData has filled areas and photos *)
DataArrives(as, z) ==
    /\ areas = <<>>
    /\ areas' = as
    /\ photos' = <<PhotoAt(1, 1), PhotoAt(2, 3)>>
    /\ zoom' = z
    /\ UNCHANGED <<app, areaLayer, lastClusterState, lastPass, firstPass,
                   shownArea, rep, size, loadVars, iconFaults, selectVars,
                   laterVars>>

NextInterleave ==
    \/ \E as \in InterleaveAreaLists, z \in {12, 14} : DataArrives(as, z)
    \/ RefreshAreaMarkersCall
    \/ \E lat \in SelectLats : AddPhotoAndRefresh(lat)
    \/ LoopTurn

SpecInterleave == InitInterleave /\ [][NextInterleave]_vars

-----------------------------------------------------------------------------
(* The icons of the markers under selection and zoom.  An icon is the pair  *)
(* of its kind and the markerSize it was drawn for; a marker keeps, next to *)
(* its icon, the originalIcon the lookup holds for it.                      *)

NormalIcon(markerSize) == [selected |-> FALSE, markerSize |-> markerSize]

(* iconSize: [markerSize * 1.2, markerSize * 1.2] *)
SelectedIcon(markerSize) == [selected |-> TRUE, markerSize |-> markerSize]

(* Five times options.iconSize[0] of an icon *)
IconSizeTimes5(icon) ==
    IF icon.selected THEN 6 * icon.markerSize ELSE 5 * icon.markerSize

IconMarker(m) ==
    [cluster |-> m.cluster, photoCount |-> m.photoCount,
     icon |-> NormalIcon(m.iconSize), originalIcon |-> NormalIcon(m.iconSize)]

(* addAreaMarkers on a cleared layer *)
IconMarkers(as, ps, z) ==
    LET ms == MMAddAreaMarkers(as, ps, z)
    IN  [k \in DOMAIN ms |-> IconMarker(ms[k])]

(* updateMarkerSizesSafely(zoom): an icon whose iconSize[0] differs from    *)
(* the new size is replaced by a normal icon of the new size                *)
UpdateIconsSafely(layer, z) ==
    [k \in DOMAIN layer |->
        LET newSize == MMGetResponsiveMarkerSize(z, layer[k].cluster.isCluster)
        IN  IF IconSizeTimes5(layer[k].icon) # 5 * newSize
            THEN [layer[k] EXCEPT !.icon = NormalIcon(newSize)]
            ELSE layer[k]]

(* deselectCurrentMarker: the selected marker gets its originalIcon back *)
DeselectedLayer(layer, sel) ==
    [k \in DOMAIN layer |->
        IF sel # <<>> /\ layer[k].cluster.id = sel[1]
        THEN [layer[k] EXCEPT !.icon = layer[k].originalIcon]
        ELSE layer[k]]

(* selectMarker(cluster), after deselectCurrentMarker: the marker the       *)
(* lookup holds for the id gets the selected icon of the current zoom       *)
SelectedLayer(layer, id, z) ==
    [k \in DOMAIN layer |->
        IF layer[k].cluster.id = id
        THEN [layer[k] EXCEPT !.icon = SelectedIcon(
                 MMGetResponsiveMarkerSize(z, layer[k].cluster.isCluster))]
        ELSE layer[k]]

iconsFrame == <<app, areas, photos, lastPass, firstPass, shownArea, rep, size,
                loadVars, iconFaults, lastEvent, timerPending, busVars, call,
                errorCountsOf, img, loops, markerLookup, created, panel>>

(* refreshAreaMarkers, run to its end *)
IconsRefresh ==
    /\ areas # <<>>
    /\ areaLayer' = IconMarkers(areas, photos, zoom)
    /\ selectedCluster' = <<>>
    /\ refreshes' = IF refreshes < MaxRefreshes THEN refreshes + 1
                    ELSE refreshes
    /\ UNCHANGED <<zoom, lastClusterState, iconsFrame>>

(* zoomend at zoom z: handleZoomChange *)
IconsZoomEnd(z) ==
    /\ refreshes > 0
    /\ zoom' = z
    /\ IF ClusterState(MMShouldClusterMarkers(z)) # lastClusterState
       THEN /\ areaLayer' = IconMarkers(areas, photos, z)
            /\ selectedCluster' = <<>>
            /\ lastClusterState' = ClusterState(MMShouldClusterMarkers(z))
       ELSE /\ areaLayer' = UpdateIconsSafely(areaLayer, z)
            /\ UNCHANGED <<selectedCluster, lastClusterState>>
    /\ UNCHANGED <<refreshes, iconsFrame>>

(* A click on the k-th marker: handleMarkerClick, selectMarker *)
IconsMarkerClick(k) ==
    /\ k \in DOMAIN areaLayer
    /\ areaLayer' = SelectedLayer(DeselectedLayer(areaLayer, selectedCluster),
                                  areaLayer[k].cluster.id, zoom)
    /\ selectedCluster' = <<areaLayer[k].cluster.id>>
    /\ UNCHANGED <<zoom, lastClusterState, refreshes, iconsFrame>>

(* deselectAllMarkers *)
IconsDeselect ==
    /\ refreshes > 0
    /\ areaLayer' = DeselectedLayer(areaLayer, selectedCluster)
    /\ selectedCluster' = <<>>
    /\ UNCHANGED <<zoom, lastClusterState, refreshes, iconsFrame>>

InitMarkerIcons ==
    /\ InitBase
    /\ InitLater

NextMarkerIcons ==
    \/ \E as \in SelectAreaLists, z \in ZoomLevels : DataArrives(as, z)
    \/ IconsRefresh
    \/ \E z \in ZoomLevels : IconsZoomEnd(z)
    \/ \E k \in 1..MaxSelectAreas : IconsMarkerClick(k)
    \/ IconsDeselect

SpecMarkerIcons == InitMarkerIcons /\ [][NextMarkerIcons]_vars

-----------------------------------------------------------------------------
(* The two applications over the same data: the legacy PhotoMapApp and the  *)
(* refactored MarkerManager each run addAreaMarkers on a cleared layer for  *)
(* the same areas, photos and zoom; `call` keeps what each of them drew.    *)

(* Lists of active areas with a center, radius given or not *)
AgreeAreaLists ==
    UNION {{[i \in 1..n |-> AreaOf(<<i>>, f[i][1], f[i][2], TRUE)] :
              f \in [1..n -> Lats \X Radii]} : n \in 1..MaxAreas}

NoPass == <<>>

agreeFrame == <<app, areaLayer, lastClusterState, lastPass, firstPass,
                shownArea, rep, size, loadVars, iconFaults, selectVars,
                busVars, errorCountsOf, tailVars>>

(* The data both applications load *)
SameDataArrives(as, ps, z) ==
    /\ areas = <<>>
    /\ areas' = as
    /\ photos' = ps
    /\ zoom' = z
    /\ call' = <<[op |-> "addAreaMarkers", legacy |-> NoPass,
                  refactored |-> NoPass]>>
    /\ UNCHANGED agreeFrame

(* PhotoMapApp.addAreaMarkers *)
LegacyPass ==
    /\ areas # <<>>
    /\ call[1].legacy = NoPass
    /\ call' = <<[call[1] EXCEPT !.legacy =
                     <<LegacyAddAreaMarkers(areas, photos, zoom)>>]>>
    /\ UNCHANGED <<areas, photos, zoom, agreeFrame>>

(* MarkerManager.addAreaMarkers *)
MMPass ==
    /\ areas # <<>>
    /\ call[1].refactored = NoPass
    /\ call' = <<[call[1] EXCEPT !.refactored =
                     <<MMAddAreaMarkers(areas, photos, zoom)>>]>>
    /\ UNCHANGED <<areas, photos, zoom, agreeFrame>>

InitAgree ==
    /\ InitBase
    /\ InitLater

NextAgree ==
    \/ \E as \in AgreeAreaLists, ps \in PhotoLists, z \in ZoomLevels :
          SameDataArrives(as, ps, z)
    \/ LegacyPass
    \/ MMPass

SpecAgree == InitAgree /\ [][NextAgree]_vars

-----------------------------------------------------------------------------
(* The photo panel of the legacy application: search, paging, load more     *)

MaxPanelPhotos == 40
LoadMoreStep == 12

(* Math.ceil(a / b) for a >= 0, b > 0 *)
CeilDiv(a, b) == (a + b - 1) \div b

Min(a, b) == IF a <= b THEN a ELSE b

(* renderAreaPhotosGrid: the slice of the current page and the visibility   *)
(* of the load-more button                                                  *)
renderAreaPhotosGrid(p) ==
    IF p.filteredPhotos = 0
    THEN [p EXCEPT !.pagePhotos = 0, !.loadMoreShown = FALSE]
    ELSE
      LET totalPages == CeilDiv(p.filteredPhotos, p.photosPerPage)
          startIndex == (p.currentPage - 1) * p.photosPerPage
          endIndex == Min(startIndex + p.photosPerPage, p.filteredPhotos)
      IN  [p EXCEPT !.pagePhotos =
                        IF endIndex > startIndex THEN endIndex - startIndex
                        ELSE 0,
                    !.loadMoreShown =
                        (p.filteredPhotos > p.photosPerPage
                           /\ p.currentPage < totalPages)]

panelFrame == <<baseVars, busVars, call, errorCountsOf, img, markerVars>>

(* showAreaInfo(area) for an area with n photos *)
PanelShowAreaInfo(n) ==
    /\ panel' = renderAreaPhotosGrid(
                    [panel EXCEPT !.currentAreaPhotos = n,
                                  !.filteredPhotos = n, !.currentPage = 1])
    /\ UNCHANGED panelFrame

(* filterPhotos() with a search query that m of the area's photos match *)
filterPhotos(m) ==
    /\ m <= panel.currentAreaPhotos
    /\ panel' = renderAreaPhotosGrid(
                    [panel EXCEPT !.filteredPhotos = m, !.currentPage = 1])
    /\ UNCHANGED panelFrame

(* changePage(direction) *)
changePage(direction) ==
    LET totalPages == CeilDiv(panel.filteredPhotos, panel.photosPerPage)
    IN  /\ panel' = renderAreaPhotosGrid(
                  IF direction = 1 /\ panel.currentPage < totalPages
                  THEN [panel EXCEPT !.currentPage = @ + 1]
                  ELSE IF direction = -1 /\ panel.currentPage > 1
                  THEN [panel EXCEPT !.currentPage = @ - 1]
                  ELSE panel)
        /\ UNCHANGED panelFrame

(* loadMorePhotos(), from the button while it is shown *)
loadMorePhotos ==
    /\ panel.loadMoreShown
    /\ panel' = renderAreaPhotosGrid(
                    [panel EXCEPT !.photosPerPage = @ + LoadMoreStep])
    /\ UNCHANGED panelFrame

InitPanel ==
    /\ InitBase
    /\ InitLater

NextPanel ==
    \/ \E n \in 0..MaxPanelPhotos : PanelShowAreaInfo(n)
    \/ \E m \in 0..MaxPanelPhotos : filterPhotos(m)
    \/ \E direction \in {1, -1} : changePage(direction)
    \/ loadMorePhotos

SpecPanel == InitPanel /\ [][NextPanel]_vars

-----------------------------------------------------------------------------
(* Vocabulary of the properties *)

(* The photos of ps within the radius of the area, boundary included; a    *)
(* radius that is undefined or zero matches no photo                       *)
WithinRadius(area, ps) ==
    {k \in DOMAIN ps :
        /\ area.radius # 0
        /\ MeridianKm(area.center_lat, ps[k].latitude) <= area.radius}

PhotoBearing(area, ps) == area.is_active /\ WithinRadius(area, ps) # {}

(* The ids of the areas a marker stands for *)
MemberIds(marker) ==
    IF marker.cluster.isCluster
    THEN {marker.cluster.areas[k].id : k \in DOMAIN marker.cluster.areas}
    ELSE {marker.cluster.id.ids}

(* The seed of a marker's cluster: its first member *)
SeedLat(marker) ==
    IF marker.cluster.isCluster THEN marker.cluster.areas[1].center_lat
    ELSE marker.cluster.center.num

MarkersOf(id) == {k \in DOMAIN areaLayer : id \in MemberIds(areaLayer[k])}

MultiMarkers == {k \in DOMAIN areaLayer : areaLayer[k].cluster.isCluster}

Passed == lastPass # <<>>

(* The layer holds the markers of a pass that ran with clustering active *)
PassClustered == Passed /\ lastPass[1].zoom <= CLUSTER_ZOOM_THRESHOLD

AreaSet == Range(areas)

-----------------------------------------------------------------------------
(* C1: after a render pass every area that is active and has at least one  *)
(* photo within its radius is a member of exactly one marker on the layer  *)
C1_PhotoBearingAreaInExactlyOneMarker ==
    Passed =>
        \A a \in AreaSet :
            PhotoBearing(a, photos) => Cardinality(MarkersOf(a.id)) = 1

(* C1 witness: a clustered pass left a multi-member marker and a singleton *)
(* marker, each holding a photo-bearing area                               *)
C1_Witness ==
    /\ PassClustered
    /\ \E a, b \in AreaSet :
          /\ PhotoBearing(a, photos) /\ PhotoBearing(b, photos)
          /\ \E k \in MarkersOf(a.id) : k \in MultiMarkers
          /\ \E k \in MarkersOf(b.id) : k \notin MultiMarkers

(* C2 (as claimed): after a render pass an area that is inactive or has no *)
(* photo within its radius is a member of no marker on the layer           *)
C2_OtherAreasInNoMarker ==
    Passed =>
        \A a \in AreaSet :
            ~PhotoBearing(a, photos) => MarkersOf(a.id) = {}

(* C3 (as claimed): after a pass at a zoom above the threshold no marker   *)
(* is a multi-member cluster and there are as many markers as active       *)
(* areas with a photo in range                                             *)
C3_OneMarkerPerPhotoBearingAreaAboveThreshold ==
    (Passed /\ lastPass[1].zoom > CLUSTER_ZOOM_THRESHOLD) =>
        /\ MultiMarkers = {}
        /\ Len(areaLayer) =
              Cardinality({i \in DOMAIN areas : PhotoBearing(areas[i], photos)})

(* C4 (as claimed): with clustering active, two active photo-bearing areas *)
(* share a marker exactly when their centers are at most                   *)
(* CLUSTER_DISTANCE_KM apart                                               *)
C4_GroupedIffWithinDistance ==
    PassClustered =>
        \A a, b \in AreaSet :
            (a.id # b.id /\ PhotoBearing(a, photos) /\ PhotoBearing(b, photos))
            => ((MeridianKm(a.center_lat, b.center_lat)
                    <= CLUSTER_DISTANCE_KM)
                <=> (MarkersOf(a.id) \cap MarkersOf(b.id) # {}))

(* C4 (amended): with clustering active every member of a cluster lies     *)
(* within CLUSTER_DISTANCE_KM of the cluster's seed, boundary included,    *)
(* the seeds of two markers are farther apart than that, and in a list of  *)
(* just two active photo-bearing areas the two share a marker exactly when *)
(* they are at most CLUSTER_DISTANCE_KM apart                              *)
C4_GroupedAroundSeed ==
    PassClustered =>
        /\ \A k \in MultiMarkers :
              \A j \in DOMAIN areaLayer[k].cluster.areas :
                  MeridianKm(SeedLat(areaLayer[k]),
                                    areaLayer[k].cluster.areas[j].center_lat)
                      <= CLUSTER_DISTANCE_KM
        /\ \A k, l \in DOMAIN areaLayer :
              k # l => MeridianKm(SeedLat(areaLayer[k]),
                                         SeedLat(areaLayer[l]))
                          > CLUSTER_DISTANCE_KM
        /\ (Len(areas) = 2 /\ \A a \in AreaSet : PhotoBearing(a, photos)) =>
              ((MeridianKm(areas[1].center_lat, areas[2].center_lat)
                    <= CLUSTER_DISTANCE_KM)
               <=> MarkersOf(areas[1].id) \cap MarkersOf(areas[2].id) # {})

(* C4 witness: two areas exactly CLUSTER_DISTANCE_KM apart share a marker  *)
(* while a third, nearer to one of them, has a marker of its own           *)
C4_Witness ==
    /\ PassClustered
    /\ \E a, b, c \in AreaSet :
          /\ MeridianKm(a.center_lat, b.center_lat) = CLUSTER_DISTANCE_KM
          /\ MarkersOf(a.id) \cap MarkersOf(b.id) # {}
          /\ MeridianKm(b.center_lat, c.center_lat) < CLUSTER_DISTANCE_KM
          /\ MarkersOf(c.id) # {}
          /\ MarkersOf(c.id) \cap MarkersOf(b.id) = {}

(* C5 (as claimed): the photos shown for an area are exactly the photos   *)
(* whose distance to the area's center is at most the area's radius, and   *)
(* none at all when the radius is undefined or zero                        *)
C5_PhotosInAreaAreThoseWithinRadius ==
    shownArea # <<>> =>
        Range(shownArea[1].photos) =
            {photos[k] : k \in WithinRadius(shownArea[1].area, photos)}

(* C6 (as claimed): the representative of a non-empty list is a featured   *)
(* photo if there is one, has the highest view count among the candidates  *)
(* and, among the candidates with that view count, the most recent         *)
(* taken_at, also when the candidates are featured photos                  *)
C6_RepresentativeFollowsOrderedPolicy ==
    (rep # <<>> /\ rep[1].input # <<>>) =>
        LET all == Range(rep[1].input)
            featured == {p \in all : p.is_featured}
            candidates == IF featured # {} THEN featured ELSE all
            top == {p \in candidates :
                       \A q \in candidates : q.view_count <= p.view_count}
        IN /\ rep[1].result # <<>>
           /\ rep[1].result[1] \in top
           /\ \A q \in top : q.taken_at <= rep[1].result[1].taken_at

(* C7: for a fixed cluster flag the marker size never shrinks when the     *)
(* zoom grows, in the step function and in the linear interpolation alike  *)
C7_MarkerSizeMonotoneInZoom ==
    (size # <<>> /\ size[1].z1 <= size[1].z2) => size[1].s1 <= size[1].s2

(* C7 witness: the linear interpolation gave a cluster marker a strictly   *)
(* larger size at a strictly larger zoom                                   *)
C7_Witness ==
    /\ app = "refactored"
    /\ size # <<>>
    /\ size[1].isCluster
    /\ size[1].z1 < size[1].z2
    /\ size[1].s1 < size[1].s2

(* The five-band table of the claim *)
FiveBandSize(z, isCluster) ==
    IF z <= 10 THEN (IF isCluster THEN 16 ELSE 12)
    ELSE IF z <= 12 THEN (IF isCluster THEN 24 ELSE 18)
    ELSE IF z <= 14 THEN (IF isCluster THEN 36 ELSE 30)
    ELSE IF z <= 16 THEN (IF isCluster THEN 48 ELSE 42)
    ELSE (IF isCluster THEN 60 ELSE 54)

(* C8 (as claimed): whichever implementation draws the markers, the size   *)
(* of a marker at a zoom is the value of the five-band table               *)
C8_EverySizeIsFiveBand ==
    size # <<>> => size[1].s2 = FiveBandSize(size[1].z2, size[1].isCluster)

(* C9 (as claimed): over two clustering runs on the same areas in two      *)
(* orders, two multi-member clusters have the same id exactly when they    *)
(* have the same set of member ids                                         *)
C9_ClusterIdIsFunctionOfMemberSet ==
    Passed =>
        \A m1, m2 \in Range(firstPass[1].markers) \cup Range(lastPass[1].markers) :
            (m1.cluster.isCluster /\ m2.cluster.isCluster) =>
                ((MemberIds(m1) = MemberIds(m2))
                    <=> (m1.cluster.id = m2.cluster.id))

-----------------------------------------------------------------------------
(* The sum of f[i] over the indices i in S *)
RECURSIVE SumIdx(_, _)
SumIdx(f, S) ==
    IF S = {} THEN 0
    ELSE LET i == CHOOSE j \in S : TRUE IN f[i] + SumIdx(f, S \ {i})

(* The positions in the area list of the members of a marker *)
MemberIdx(marker) == {i \in DOMAIN areas : areas[i].id \in MemberIds(marker)}

(* C11: the center of every multi-member cluster on the layer is the mean  *)
(* of the center latitudes and of the center longitudes of exactly the     *)
(* areas of the list that are its members                                  *)
C11_CenterIsMeanOfMembers ==
    \A k \in MultiMarkers :
        LET c == areaLayer[k].cluster
            members == MemberIdx(areaLayer[k])
            n == Cardinality(members)
        IN /\ n >= 2
           /\ n = Len(c.areas)
           /\ c.center.den > 0
           /\ c.center.num * n =
                 c.center.den *
                     SumIdx([i \in DOMAIN areas |-> areas[i].center_lat], members)
           /\ c.center.lngNum * n =
                 c.center.den *
                     SumIdx([i \in DOMAIN areas |-> areas[i].center_lng], members)

(* C11 witness: a cluster of three areas at three different latitudes, and *)
(* so with a center that is the center of none of them                     *)
C11_Witness ==
    \E k \in MultiMarkers :
        /\ Len(areaLayer[k].cluster.areas) = 3
        /\ Cardinality({areaLayer[k].cluster.areas[j].center_lat : j \in 1..3}) = 3
        /\ \A j \in 1..3 :
              areaLayer[k].cluster.center.num
                  # areaLayer[k].cluster.center.den
                        * areaLayer[k].cluster.areas[j].center_lat

(* C12 (as claimed): the photo count on the badge of a multi-member        *)
(* cluster is the sum, over its member areas, of the number of photos      *)
(* within the radius of that area, a photo being counted once for every    *)
(* member area it lies in                                                  *)
C12_ClusterCountIsSumOverMembers ==
    \A k \in MultiMarkers :
        areaLayer[k].photoCount =
            SumIdx([i \in DOMAIN areas |->
                       Cardinality(WithinRadius(areas[i], photos))],
                   MemberIdx(areaLayer[k]))

(* C13: an active area whose center latitude or longitude is missing is a  *)
(* member of no marker, and the pass leaves exactly the markers it leaves  *)
(* for the list without such areas: same clusters, members, centers,       *)
(* counts and order                                                        *)
C13_AreaWithoutCenterIsAsIfAbsent ==
    Passed =>
        /\ areaLayer = lastPass[1].markers
        /\ \A i \in DOMAIN areas :
              ~HasCenter(areas[i]) => MarkersOf(areas[i].id) = {}

(* C13 witness: clustering was on, an area without a center stood in the   *)
(* list before two areas that were grouped into one cluster                *)
C13_Witness ==
    /\ Passed
    /\ zoom <= CLUSTER_ZOOM_THRESHOLD
    /\ Len(areas) = 3
    /\ ~HasCenter(areas[1])
    /\ MultiMarkers # {}
    /\ MarkersOf(areas[2].id) = MarkersOf(areas[3].id)
    /\ MarkersOf(areas[2].id) # {}


FreshRender ==
    IF app = "legacy" THEN LegacyAddAreaMarkers(areas, photos, zoom)
    ELSE MMAddAreaMarkers(areas, photos, zoom)

(* the markers that stand for the single area of that id *)
SingleMarkersOf(id) ==
    {k \in DOMAIN areaLayer :
        ~areaLayer[k].cluster.isCluster /\ MemberIds(areaLayer[k]) = {id}}

(* C15: after the initial render and any sequence of zoom-end events, the   *)
(* layer holds the markers of a fresh render at the current zoom: a         *)
(* multi-member marker only at or below the threshold, and above it one     *)
(* marker per photo-bearing area                                            *)
C15_LayerIsFreshRenderAtCurrentZoom ==
    Passed =>
        /\ areaLayer = FreshRender
        /\ (MultiMarkers # {} => zoom <= CLUSTER_ZOOM_THRESHOLD)
        /\ (zoom > CLUSTER_ZOOM_THRESHOLD =>
               /\ \A i \in DOMAIN areas :
                      PhotoBearing(areas[i], photos) =>
                          Cardinality(SingleMarkersOf(areas[i].id)) = 1
               /\ \A k \in DOMAIN areaLayer :
                      \E i \in DOMAIN areas :
                          /\ PhotoBearing(areas[i], photos)
                          /\ MemberIds(areaLayer[k]) = {areas[i].id})


(* The fetches of the last loadData call that failed: a network error, a    *)
(* status that is not ok, or a body that is not JSON                        *)
FailedFetches ==
    IF load = <<>> THEN {}
    ELSE {k \in Keys : load[1].fetch[k] \in {"networkError", "notOk", "malformed"}}

FreshlyFetched ==
    IF load = <<>> \/ app # "refactored" THEN {}
    ELSE {k \in Keys :
            /\ load[1].before[k] # <<>>
            /\ load[1].before[k][1].body.valid
            /\ load[1].at - load[1].before[k][1].at < cacheExpiry}

(* C17: a call made less than cacheExpiry after the last successful         *)
(* network fetch of a key performs no network fetch for it and yields a     *)
(* response from which the data fetched then can be read, however many      *)
(* cache hits came before                                                   *)
C17_CacheHitsStayReadable ==
    \A k \in FreshlyFetched :
        /\ load[1].attempts[k] = 0
        /\ load[1].yielded[k] = <<load[1].before[k][1].body.data>>

(* C18: when a network fetch of a loadData call fails, the fetch is tried   *)
(* again, and at most maxRetries times in all, before the embedded dataset  *)
(* is substituted                                                           *)
C18_FailedFetchIsRetriedUpToMaxRetries ==
    \A k \in FailedFetches :
        /\ load[1].attempts[k] > 1
        /\ load[1].attempts[k] <= maxRetries


(* C19: within a render pass the failure of an icon construction, the       *)
(* fallback construction included, does not end the pass: every cluster a   *)
(* pass without failures gives a marker, and whose own icon could be built, *)
(* has its marker on the layer                                              *)
C19_IconFailureNeverAbortsPass ==
    Passed =>
        \A k \in DOMAIN FreshRender :
            IconOutcome(iconFaults, k) # "none" =>
                \E j \in DOMAIN areaLayer :
                    areaLayer[j].cluster = FreshRender[k].cluster


(* C20: the selection pointer changes value only in a step that handles a   *)
(* click of the user; zoom changes, refreshes, timers and data events leave *)
(* it as it is                                                              *)
C20_SelectionChangesOnlyOnUserClick ==
    [][selectedCluster' # selectedCluster => lastEvent' = "click"]_vars


(* C21: an emit invokes the listeners in non-increasing order of priority,  *)
(* whatever on / once / off calls came before it                            *)
C21_ListenersRunInPriorityOrder ==
    \A m \in DOMAIN emits :
        \A i \in DOMAIN emits[m].invoked, j \in DOMAIN emits[m].invoked :
            i < j => emits[m].invoked[i].priority >= emits[m].invoked[j].priority

(* an emit that ran a listener registered later, and of higher priority,    *)
(* before one registered earlier                                            *)
C21_Witness ==
    \E m \in DOMAIN emits :
        /\ emits[m].done
        /\ Len(emits[m].invoked) = 2
        /\ emits[m].invoked[1].priority > emits[m].invoked[2].priority
        /\ emits[m].invoked[1].id > emits[m].invoked[2].id

(* How often the listener of that id was invoked by the m-th emit *)
TimesInvoked(m, id) ==
    Cardinality({i \in DOMAIN emits[m].invoked : emits[m].invoked[i].id = id})

(* C22: a listener registered with once() is invoked at most once over all  *)
(* emits of its event, also when it throws and when the event is emitted    *)
(* again from inside a listener                                             *)
C22_OnceListenerRunsAtMostOnce ==
    \A m \in DOMAIN emits :
        \A i \in DOMAIN emits[m].invoked :
            emits[m].invoked[i].once =>
                SumSeq([n \in DOMAIN emits |->
                          TimesInvoked(n, emits[m].invoked[i].id)]) <= 1

(* C23: an emit that has returned invoked exactly once every listener that  *)
(* was registered when it started and was not removed while it ran, also    *)
(* when listeners called off() or on() for the event meanwhile              *)
C23_EmitInvokesEachListenerOnce ==
    \A m \in DOMAIN emits :
        emits[m].done =>
            \A k \in DOMAIN emits[m].start :
                emits[m].start[k].id \notin emits[m].removed =>
                    TimesInvoked(m, emits[m].start[k].id) = 1

(* C24: offAll(context) leaves no listener of that context on any event and *)
(* returns the number of listeners it removed                               *)
C24_OffAllRemovesAndCounts ==
    (call # <<>> /\ call[1].op = "offAll") =>
        /\ (dispatch = <<>> /\ events = OffAllEvents(call[1].before, call[1].context))
               => \A e \in EventNames : \A k \in DOMAIN events[e] :
                      events[e][k].context # call[1].context
        /\ call[1].result =
              Cardinality({<<e, k>> \in EventNames \X (1..MaxIds) :
                              /\ k \in DOMAIN call[1].before[e]
                              /\ call[1].before[e][k].context = call[1].context})

(* C25: with retry: true, each of the first maxRetries errors of a context  *)
(* since the last reset is granted a retry without running the fallback,    *)
(* and every later error is granted none and runs the fallback              *)
C25_FirstMaxRetriesErrorsAreRetried ==
    \A i \in DOMAIN call :
        (call[i].op = "handle" /\ call[i].retry) =>
            IF call[i].nth <= maxRetries
            THEN call[i].granted /\ ~call[i].ranFallback
            ELSE /\ ~call[i].granted
                 /\ call[i].fallback # "none" => call[i].ranFallback

(* The first n entries of a sequence *)
Prefix(q, n) == SubSeq(q, 1, n)

(* C26: after setupImageFallback the retry URLs are assigned at most once   *)
(* each and in list order; when the last one has failed the fallback SVG is *)
(* set and onError is called exactly once; no more than |retryUrls| + 1     *)
(* errors are ever handled                                                  *)
C26_RetryChainTerminates ==
    \A k \in DOMAIN img :
        LET i == img[k]
            n == Len(i.retryUrls)
        IN  /\ Len(i.assigned) <= n
            /\ i.assigned = Prefix(i.retryUrls, Len(i.assigned))
            /\ i.handled <= n + 1
            /\ i.handled = n + 1 <=>
                   (i.src = FallbackSVG /\ ~i.onerror)
            /\ i.onErrorCalls =
                   IF i.hasOnError /\ i.handled = n + 1 THEN 1 ELSE 0

(* Witness of C26: every retry URL of a list of three failed, the fallback  *)
(* is shown, and a further error event arrived                              *)
C26_Witness ==
    \E k \in DOMAIN img :
        /\ Len(img[k].retryUrls) = MaxRetryUrls
        /\ img[k].assigned = img[k].retryUrls
        /\ img[k].src = FallbackSVG
        /\ img[k].onErrorCalls = 1
        /\ img[k].errorEvents > img[k].handled

(* The markers one pass of addAreaMarkers leaves for the data of the moment *)
ExpectedClusters ==
    LET ms == MMAddAreaMarkers(areas, photos, zoom)
    IN  {ms[k].cluster : k \in DOMAIN ms}

(* C27: when every loop started by refreshAreaMarkers has run to its end,   *)
(* the layer holds exactly one marker for each cluster of the current       *)
(* clustering that has photos, and markerLookup maps the id of each to the  *)
(* marker on the layer                                                      *)
C27_InterleavedRefreshesLeaveOneMarkerEach ==
    (refreshes > 0 /\ loops = <<>>) =>
        /\ {areaLayer[k].cluster : k \in DOMAIN areaLayer} = ExpectedClusters
        /\ \A k, l \in DOMAIN areaLayer :
               areaLayer[k].cluster = areaLayer[l].cluster => k = l
        /\ DOMAIN markerLookup = {c.id : c \in ExpectedClusters}
        /\ \A k \in DOMAIN areaLayer :
               markerLookup[areaLayer[k].cluster.id] = areaLayer[k].serial

(* C28: the selected marker shows the selected icon, and every other marker *)
(* on the layer shows the normal icon of the size of the current zoom       *)
C28_IconsFollowSelectionAndZoom ==
    \A k \in DOMAIN areaLayer :
        IF selectedCluster = <<areaLayer[k].cluster.id>>
        THEN areaLayer[k].icon.selected
        ELSE areaLayer[k].icon = NormalIcon(
                 MMGetResponsiveMarkerSize(zoom, areaLayer[k].cluster.isCluster))

(* What the claim compares of a marker: the ids of its member areas, its    *)
(* center and its photo count                                               *)
Rendered(marker) ==
    [members |-> IF marker.cluster.isCluster
                 THEN {marker.cluster.areas[k].id :
                          k \in DOMAIN marker.cluster.areas}
                 ELSE {marker.cluster.id.ids},
     center |-> marker.cluster.center,
     photoCount |-> marker.photoCount]

RenderedSet(markers) == {Rendered(markers[k]) : k \in DOMAIN markers}

(* The two photo-membership functions give the same photos for every area *)
SameMembership ==
    \A k \in DOMAIN areas :
        LegacyGetPhotosInArea(areas[k], photos)
            = DMGetPhotosInArea(areas[k], photos)

BothPassesRan ==
    /\ call # <<>>
    /\ call[1].op = "addAreaMarkers"
    /\ call[1].legacy # NoPass
    /\ call[1].refactored # NoPass

(* C29: over the same active areas with centers, photos and zoom, and with  *)
(* photo membership that is the same function on them, the legacy and the   *)
(* refactored application draw markers with the same member sets, centers   *)
(* and photo counts                                                         *)
C29_ImplementationsAgree ==
    (BothPassesRan /\ SameMembership) =>
        /\ Len(call[1].legacy[1]) = Len(call[1].refactored[1])
        /\ RenderedSet(call[1].legacy[1]) = RenderedSet(call[1].refactored[1])

(* Witness of C29: both applications drew a multi-member marker and a       *)
(* single marker for three areas, one of them without a radius              *)
C29_Witness ==
    /\ BothPassesRan
    /\ SameMembership
    /\ Len(areas) = MaxAreas
    /\ \E k \in DOMAIN areas : areas[k].radius = 0
    /\ \E m, n \in DOMAIN call[1].legacy[1] :
           /\ call[1].legacy[1][m].cluster.isCluster
           /\ ~call[1].legacy[1][n].cluster.isCluster

(* C30: in the legacy photo panel the current page is between 1 and the     *)
(* number of pages (at least 1), so the rendered slice is not empty while   *)
(* there are filtered photos                                                *)
C30_CurrentPageInRange ==
    /\ 1 <= panel.currentPage
    /\ panel.currentPage <=
           (IF panel.filteredPhotos = 0 THEN 1
            ELSE CeilDiv(panel.filteredPhotos, panel.photosPerPage))
    /\ panel.filteredPhotos > 0 => panel.pagePhotos > 0

=============================================================================
